---- MODULE Spec2Model ----
(***************************************************************************)
(* Replika: a controller that keeps copies ("targets") of one source       *)
(* object in a set of namespaces.  The model follows the per-event         *)
(* reconciler: controllers/replika_sync.go (namespace resolution, target   *)
(* construction, create-or-patch, label-based deletion), the Reconcile of  *)
(* controllers/replika_update.go:309-415 and the condition helpers.        *)
(*                                                                         *)
(* Names (namespaces) are sequences of one-character strings so that the   *)
(* namespace grammar is computed, not assumed.  Group and version of the   *)
(* source are carried by its kind.                                         *)
(***************************************************************************)
EXTENDS Integers, Sequences, FiniteSets, TLC

VARIABLES
    replikas,   \* stored Replika objects: name -> record or NoReplika
    objects,    \* stored objects of the replicated kinds: key -> record or Absent
    ops,        \* cluster writes issued by the last reconciliation pass, in order
    last,       \* what the last pass read, computed and returned
    now,        \* the clock
    edits,      \* number of user/external edits made so far
    call,       \* one call of a function of the reconciler: its inputs, its result
    reconciler, \* the fields ReplikaInstance and QuitGoroutine of the reconciler
    goroutines  \* the AsyncReconcile goroutines started so far, in order

vars == <<replikas, objects, ops, last, now, edits, call, reconciler, goroutines>>

-----------------------------------------------------------------------------
(* Bounds of the model *)

\* external edits (spec edits, deletion requests, object writes) per behaviour
MaxEdits == 2

-----------------------------------------------------------------------------
(* Names *)

NsDefault == <<"d", "e", "f", "a", "u", "l", "t">>
NsA == <<"a">>
NsB == <<"b">>
\* a well-formed name of a namespace that does not exist in the cluster
NsGhost == <<"z", "-", "9">>
\* a name the namespace grammar rejects
NsBad == <<"B">>

\* the namespaces of the cluster, in the order the list call returns them
AllNamespaces == <<NsA, NsB, NsDefault>>

Range(s) == {s[i] : i \in 1..Len(s)}

LiveNamespaces == Range(AllNamespaces)

ReplikaNames == {"r1"}
Kinds == {"ConfigMap"}
ObjNames == {"x"}

NoReplika == [absent |-> TRUE]
\* the reconciler as main.go constructs it: no instance stored, flag unset
NewReconciler == [ReplikaInstance |-> NoReplika, QuitGoroutine |-> FALSE]
Absent == [absent |-> TRUE]
NoValue == "<none>"
\* the namespace of an object that has none
NoNs == <<>>

defaultTargetNamespace == NsDefault
resourceReplikaLabelPartOfKey == "replika.prosimcorp.com/part-of"
resourceReplikaLabelCreatedKey == "replika.prosimcorp.com/created-by"
resourceReplikaLabelCreatedValue == "replika-controller"
UserLabelKey == "app"
LabelKeys == {resourceReplikaLabelPartOfKey, resourceReplikaLabelCreatedKey, UserLabelKey}

\* error values; NoError is Go's nil
NoError == "nil"
namespaceFormatError == "namespaceFormatError"
sourceAndTargetSameNamespaceError == "sourceAndTargetSameNamespaceError"
parseSyncTimeError == "parseSyncTimeError"
ApiError == "apiError"
NotFoundError == "notFound"
AlreadyExistsError == "alreadyExists"

-----------------------------------------------------------------------------
(* The namespace grammar ^[a-z0-9]([-a-z0-9]*[a-z0-9])?$ *)

LowerAlnum == {"a", "b", "c", "d", "e", "f", "g", "h", "i", "j", "k", "l", "m",
               "n", "o", "p", "q", "r", "s", "t", "u", "v", "w", "x", "y", "z",
               "0", "1", "2", "3", "4", "5", "6", "7", "8", "9"}

MatchNamespaceExpression(name) ==
    /\ Len(name) >= 1
    /\ name[1] \in LowerAlnum
    /\ name[Len(name)] \in LowerAlnum
    /\ \A i \in 1..Len(name) : name[i] \in LowerAlnum \cup {"-"}

-----------------------------------------------------------------------------
(* A call to the cluster either has its normal outcome or fails with an    *)
(* error of the transport or the server.  The operators below that make    *)
(* calls return the set of their possible results.                         *)

CallErrors == {NoError, ApiError}

\* every entry of a list of names satisfies the grammar
WellFormed(list) == \A j \in 1..Len(list) : MatchNamespaceExpression(list[j])

-----------------------------------------------------------------------------
(* GetNamespaces: the target namespaces of a Replika *)

\* ExcludeScan that looks at the first entry of ExcludeFrom only
RECURSIVE ExcludeScanFirstOnly(_, _, _)
ExcludeScanFirstOnly(excludeFrom, j, ns) ==
    IF j > Len(excludeFrom) \/ j > 1 THEN "keep"
    ELSE IF ~MatchNamespaceExpression(excludeFrom[j]) THEN namespaceFormatError
    ELSE IF excludeFrom[j] = ns THEN "excluded"
    ELSE ExcludeScanFirstOnly(excludeFrom, j + 1, ns)

\* one namespace of the list against ExcludeFrom, entry by entry from entry j
RECURSIVE ExcludeScan(_, _, _)
ExcludeScan(excludeFrom, j, ns) ==
    IF j > Len(excludeFrom) THEN "keep"
    ELSE IF ~MatchNamespaceExpression(excludeFrom[j]) THEN namespaceFormatError
    ELSE IF excludeFrom[j] = ns THEN "excluded"
    ELSE ExcludeScan(excludeFrom, j + 1, ns)

\* MatchAllLoop without the skip of the namespace of the source
RECURSIVE MatchAllLoopKeepsSource(_, _, _, _)
MatchAllLoopKeepsSource(spec, items, i, namespaces) ==
    IF i > Len(items) THEN [namespaces |-> namespaces, err |-> NoError]
    ELSE LET scan == ExcludeScan(spec.excludeFrom, 1, items[i])
         IN  IF scan = namespaceFormatError
                 THEN [namespaces |-> namespaces, err |-> namespaceFormatError]
             ELSE IF scan = "excluded"
                 THEN MatchAllLoopKeepsSource(spec, items, i + 1, namespaces)
             ELSE MatchAllLoopKeepsSource(spec, items, i + 1,
                                          Append(namespaces, items[i]))

\* the namespaceLoop over the listed namespaces, from item i
RECURSIVE MatchAllLoop(_, _, _, _)
MatchAllLoop(spec, items, i, namespaces) ==
    IF i > Len(items) THEN [namespaces |-> namespaces, err |-> NoError]
    ELSE IF items[i] = spec.source.namespace
         THEN MatchAllLoop(spec, items, i + 1, namespaces)
    ELSE LET scan == ExcludeScan(spec.excludeFrom, 1, items[i])
         IN  IF scan = namespaceFormatError
                 THEN [namespaces |-> namespaces, err |-> namespaceFormatError]
             ELSE IF scan = "excluded"
                 THEN MatchAllLoop(spec, items, i + 1, namespaces)
             ELSE MatchAllLoop(spec, items, i + 1, Append(namespaces, items[i]))

\* ReplicateInLoop where an entry that differs from the source clears the error
RECURSIVE ReplicateInLoopForgets(_, _, _, _)
ReplicateInLoopForgets(spec, i, namespaces, err) ==
    IF i > Len(spec.replicateIn) THEN [namespaces |-> namespaces, err |-> err]
    ELSE LET v == spec.replicateIn[i]
             err1 == IF v = spec.source.namespace
                         THEN sourceAndTargetSameNamespaceError ELSE NoError
         IN  IF ~MatchNamespaceExpression(v)
                 THEN [namespaces |-> namespaces, err |-> namespaceFormatError]
             ELSE ReplicateInLoopForgets(spec, i + 1, Append(namespaces, v), err1)

\* the loop over ReplicateIn, from entry i; err is the error set so far
RECURSIVE ReplicateInLoop(_, _, _, _)
ReplicateInLoop(spec, i, namespaces, err) ==
    IF i > Len(spec.replicateIn) THEN [namespaces |-> namespaces, err |-> err]
    ELSE LET v == spec.replicateIn[i]
             err1 == IF v = spec.source.namespace
                         THEN sourceAndTargetSameNamespaceError ELSE err
         IN  IF ~MatchNamespaceExpression(v)
                 THEN [namespaces |-> namespaces, err |-> namespaceFormatError]
             ELSE ReplicateInLoop(spec, i + 1, Append(namespaces, v), err1)

\* the namespaces of the cluster as the list call returns them, or its error
ListNamespaces ==
    {[items |-> IF e = NoError THEN AllNamespaces ELSE <<>>, err |-> e] : e \in CallErrors}

\* GetNamespacesListed that answers "default" for an empty ReplicateIn, whatever
\* the namespace of the source
GetNamespacesListedAlwaysDefault(spec, listed) ==
    IF spec.matchAll
        THEN IF listed.err # NoError
                 THEN [namespaces |-> <<>>, err |-> listed.err]
             ELSE MatchAllLoop(spec, listed.items, 1, <<>>)
    ELSE IF Len(spec.replicateIn) = 0
        THEN [namespaces |-> <<defaultTargetNamespace>>, err |-> NoError]
    ELSE ReplicateInLoop(spec, 1, <<>>, NoError)

\* GetNamespaces that looks at the length of replicateIn before matchAll
GetNamespacesListedListFirst(spec, listed) ==
    IF Len(spec.replicateIn) = 0
        THEN IF spec.source.namespace # defaultTargetNamespace
                 THEN [namespaces |-> <<defaultTargetNamespace>>, err |-> NoError]
             ELSE [namespaces |-> <<>>, err |-> NoError]
    ELSE IF spec.matchAll
        THEN IF listed.err # NoError
                 THEN [namespaces |-> <<>>, err |-> listed.err]
             ELSE MatchAllLoop(spec, listed.items, 1, <<>>)
    ELSE ReplicateInLoop(spec, 1, <<>>, NoError)

\* GetNamespaces once the list call (made under matchAll only) has answered
GetNamespacesListed(spec, listed) ==
    IF spec.matchAll
        THEN IF listed.err # NoError
                 THEN [namespaces |-> <<>>, err |-> listed.err]
             ELSE MatchAllLoop(spec, listed.items, 1, <<>>)
    ELSE IF Len(spec.replicateIn) = 0
        THEN IF spec.source.namespace # defaultTargetNamespace
                 THEN [namespaces |-> <<defaultTargetNamespace>>, err |-> NoError]
             ELSE [namespaces |-> <<>>, err |-> sourceAndTargetSameNamespaceError]
    ELSE ReplicateInLoop(spec, 1, <<>>, NoError)

GetNamespaces(spec) ==
    {GetNamespacesListed(spec, listed) : listed \in ListNamespaces}

\* GetSynchronizationTime: time.ParseDuration on the strings the model uses
defaultSynchronizationTime == 15
ParseDuration(str) ==
    CASE str = "20s" -> [seconds |-> 20, err |-> NoError]
      [] str = "1m"  -> [seconds |-> 60, err |-> NoError]
      [] OTHER       -> [seconds |-> 0, err |-> "invalidDuration"]

GetSynchronizationTime(spec) ==
    LET parsed == ParseDuration(spec.time)
    IN  IF parsed.err # NoError
            THEN [seconds |-> defaultSynchronizationTime, err |-> parseSyncTimeError]
        ELSE [seconds |-> parsed.seconds, err |-> NoError]

-----------------------------------------------------------------------------
(* Objects of the cluster *)

AllObjNames == <<"x">>
ObjKeys == Kinds \X LiveNamespaces \X ObjNames
DataKeys == {"k"}
AnnotationKeys == {"note"}

NoLabels == [l \in LabelKeys |-> NoValue]

\* what a user or another controller stores: no label of this controller
UserObjects ==
    { [labels |-> NoLabels,
       annotations |-> [a \in AnnotationKeys |-> NoValue],
       data |-> [d \in DataKeys |-> "1"]],
      [labels |-> [NoLabels EXCEPT ![UserLabelKey] = "v1"],
       annotations |-> [a \in AnnotationKeys |-> "n"],
       data |-> [d \in DataKeys |-> "2"]] }

Exists(objs, kind, ns, name) ==
    /\ <<kind, ns, name>> \in DOMAIN objs
    /\ objs[<<kind, ns, name>>] # Absent

-----------------------------------------------------------------------------
(* Conditions of a Replika *)

ConditionTypeSourceSynced == "SourceSynced"
ConditionReasonSourceNotFound == "SourceNotFound"
ConditionReasonTargetNamespaceNotFound == "TargetNamespaceNotFound"
ConditionReasonSourceReplicationFailed == "SourceReplicationFailed"
ConditionReasonSourceSynced == "SourceSynced"
ConditionTrue == "True"
ConditionFalse == "False"

ConditionReasonSourceNotFoundMessage == "Source resource was not found"
ConditionReasonTargetNamespaceNotFoundMessage == "A target namespace was not found"
ConditionReasonSourceReplicationFailedMessage == "Error replicating the source on targets"
ConditionReasonSourceSyncedMessage == "Source was successfully synchronized"

NewReplikaCondition(condType, status, reason, message, time) ==
    [type |-> condType, status |-> status, lastTransitionTime |-> time,
     reason |-> reason, message |-> message]

\* index of the first condition of the type, 0 when there is none
RECURSIVE GetReplikaCondition(_, _, _)
GetReplikaCondition(conditions, condType, i) ==
    IF i > Len(conditions) THEN 0
    ELSE IF conditions[i].type = condType THEN i
    ELSE GetReplikaCondition(conditions, condType, i + 1)

\* UpdateReplikaCondition that never looks for the condition
UpdateReplikaConditionAlwaysAppends(conditions, condition, time) ==
    Append(conditions, condition)

UpdateReplikaCondition(conditions, condition, time) ==
    LET i == GetReplikaCondition(conditions, condition.type, 1)
    IN  IF i = 0 THEN Append(conditions, condition)
        ELSE [conditions EXCEPT ![i] =
                 [@ EXCEPT !.status = condition.status,
                           !.reason = condition.reason,
                           !.message = condition.message,
                           !.lastTransitionTime = time]]

\* SameReplikaConditions without its Get: the two nested loops
SameConditions(conditions, oldConditions) ==
    ~ \E i \in 1..Len(conditions), j \in 1..Len(oldConditions) :
        /\ conditions[i].type = oldConditions[j].type
        /\ \/ conditions[i].status # oldConditions[j].status
           \/ conditions[i].reason # oldConditions[j].reason
           \/ conditions[i].message # oldConditions[j].message

-----------------------------------------------------------------------------
(* GetSource, BuildTargets *)

GetSource(spec, objs) ==
    LET src == spec.source
    IN  {IF e # NoError THEN [source |-> Absent, err |-> e]
         ELSE IF ~Exists(objs, src.kind, src.namespace, src.name)
             THEN [source |-> Absent, err |-> NotFoundError]
         ELSE [source |-> objs[<<src.kind, src.namespace, src.name>>], err |-> NoError]
         : e \in CallErrors}

\* TargetManifest that starts from an empty label map
TargetManifestDropsLabels(replika, source, ns) ==
    [kind |-> replika.spec.source.kind,
     namespace |-> ns,
     name |-> replika.spec.source.name,
     labels |-> [NoLabels EXCEPT
                    ![resourceReplikaLabelCreatedKey] = resourceReplikaLabelCreatedValue,
                    ![resourceReplikaLabelPartOfKey] = replika.name],
     annotations |-> source.annotations,
     data |-> source.data]

\* TargetManifest where a label the source carries wins over the controller's
TargetManifestSourceWins(replika, source, ns) ==
    [kind |-> replika.spec.source.kind,
     namespace |-> ns,
     name |-> replika.spec.source.name,
     labels |-> [l \in LabelKeys |->
                    IF source.labels[l] # NoValue THEN source.labels[l]
                    ELSE IF l = resourceReplikaLabelCreatedKey
                        THEN resourceReplikaLabelCreatedValue
                    ELSE IF l = resourceReplikaLabelPartOfKey THEN replika.name
                    ELSE NoValue],
     annotations |-> source.annotations,
     data |-> source.data]

\* the clean copy of the source with the labels of the controller, in namespace ns
TargetManifest(replika, source, ns) ==
    [kind |-> replika.spec.source.kind,
     namespace |-> ns,
     name |-> replika.spec.source.name,
     labels |-> [source.labels EXCEPT
                    ![resourceReplikaLabelCreatedKey] = resourceReplikaLabelCreatedValue,
                    ![resourceReplikaLabelPartOfKey] = replika.name],
     annotations |-> source.annotations,
     data |-> source.data]

SourceNotFoundCondition(time) ==
    NewReplikaCondition(ConditionTypeSourceSynced, ConditionFalse,
        ConditionReasonSourceNotFound, ConditionReasonSourceNotFoundMessage, time)

TargetNamespaceNotFoundCondition(time) ==
    NewReplikaCondition(ConditionTypeSourceSynced, ConditionFalse,
        ConditionReasonTargetNamespaceNotFound,
        ConditionReasonTargetNamespaceNotFoundMessage, time)

\* the condition of a failed write with the status left Unknown
SourceReplicationFailedConditionUnknown(time) ==
    NewReplikaCondition(ConditionTypeSourceSynced, "Unknown",
                        ConditionReasonSourceReplicationFailed,
                        ConditionReasonSourceReplicationFailedMessage, time)

SourceReplicationFailedCondition(time) ==
    NewReplikaCondition(ConditionTypeSourceSynced, ConditionFalse,
        ConditionReasonSourceReplicationFailed,
        ConditionReasonSourceReplicationFailedMessage, time)

SourceSyncedCondition(time) ==
    NewReplikaCondition(ConditionTypeSourceSynced, ConditionTrue,
        ConditionReasonSourceSynced, ConditionReasonSourceSyncedMessage, time)

\* an object without content
EmptyObject ==
    [labels |-> NoLabels, annotations |-> [a \in AnnotationKeys |-> NoValue],
     data |-> [d \in DataKeys |-> NoValue]]

\* BuildFromSource that reports a missing source and goes on with an empty one
BuildFromSourceKeepsGoing(replika, got, time) ==
    LET source == IF got.err # NoError THEN EmptyObject ELSE got.source
        conditions == IF got.err # NoError
                          THEN UpdateReplikaCondition(replika.conditions,
                                   SourceNotFoundCondition(time), time)
                      ELSE replika.conditions
    IN  {IF resolved.err # NoError
             THEN [targets |-> <<>>, err |-> resolved.err, source |-> got,
                   resolved |-> <<resolved>>,
                   conditions |-> UpdateReplikaCondition(conditions,
                                      TargetNamespaceNotFoundCondition(time), time)]
         ELSE [targets |-> [i \in 1..Len(resolved.namespaces) |->
                               TargetManifest(replika, source, resolved.namespaces[i])],
               err |-> NoError, source |-> got, resolved |-> <<resolved>>,
               conditions |-> conditions]
         : resolved \in GetNamespaces(replika.spec)}

\* BuildTargets once the source is fetched
BuildFromSource(replika, got, time) ==
    IF got.err # NoError
        THEN {[targets |-> <<>>, err |-> got.err, source |-> got, resolved |-> <<>>,
               conditions |-> UpdateReplikaCondition(replika.conditions,
                                  SourceNotFoundCondition(time), time)]}
    ELSE {IF resolved.err # NoError
              THEN [targets |-> <<>>, err |-> resolved.err, source |-> got,
                    resolved |-> <<resolved>>,
                    conditions |-> UpdateReplikaCondition(replika.conditions,
                                       TargetNamespaceNotFoundCondition(time), time)]
          ELSE [targets |-> [i \in 1..Len(resolved.namespaces) |->
                                TargetManifest(replika, got.source, resolved.namespaces[i])],
                err |-> NoError, source |-> got, resolved |-> <<resolved>>,
                conditions |-> replika.conditions]
          : resolved \in GetNamespaces(replika.spec)}

BuildTargets(replika, objs, time) ==
    UNION {BuildFromSource(replika, got, time) : got \in GetSource(replika.spec, objs)}

-----------------------------------------------------------------------------
(* UpdateTarget, UpdateTargets *)

\* a written call of the pass
Op(verb, kind, ns, name, err) ==
    [verb |-> verb, kind |-> kind, namespace |-> ns, name |-> name, err |-> err]

StoredObject(target) ==
    [labels |-> target.labels, annotations |-> target.annotations, data |-> target.data]

\* a JSON merge patch of one map: the keys of the patch win, the others stay
MergeMap(old, patch) == [k \in DOMAIN old |-> IF patch[k] # NoValue THEN patch[k] ELSE old[k]]

\* a patch that writes the payload and leaves the labels of the object alone
MergePatchKeepsLabels(old, target) ==
    [labels |-> old.labels,
     annotations |-> MergeMap(old.annotations, target.annotations),
     data |-> MergeMap(old.data, target.data)]

MergePatch(old, target) ==
    [labels |-> MergeMap(old.labels, target.labels),
     annotations |-> MergeMap(old.annotations, target.annotations),
     data |-> MergeMap(old.data, target.data)]

\* r.Create: the server refuses an unknown namespace and an existing object
Create(objs, target, e) ==
    LET key == <<target.kind, target.namespace, target.name>>
        err == IF e # NoError THEN e
               ELSE IF target.namespace \notin LiveNamespaces THEN NotFoundError
               ELSE IF objs[key] # Absent THEN AlreadyExistsError
               ELSE NoError
    IN  [objects |-> IF err = NoError THEN [objs EXCEPT ![key] = StoredObject(target)]
                     ELSE objs,
         op |-> Op("create", target.kind, target.namespace, target.name, err),
         err |-> err]

\* Patch that replaces by delete: the object is removed, a later call creates it
PatchReplacesByDelete(objs, target, e) ==
    LET key == <<target.kind, target.namespace, target.name>>
        err == IF e # NoError THEN e
               ELSE IF ~Exists(objs, target.kind, target.namespace, target.name)
                   THEN NotFoundError
               ELSE NoError
    IN  [objects |-> IF err = NoError THEN [objs EXCEPT ![key] = Absent] ELSE objs,
         op |-> Op("patch", target.kind, target.namespace, target.name, err),
         err |-> err]

\* r.Patch with the manifest as a merge patch
Patch(objs, target, e) ==
    LET key == <<target.kind, target.namespace, target.name>>
        err == IF e # NoError THEN e
               ELSE IF ~Exists(objs, target.kind, target.namespace, target.name)
                   THEN NotFoundError
               ELSE NoError
    IN  [objects |-> IF err = NoError
                         THEN [objs EXCEPT ![key] = MergePatch(objs[key], target)]
                     ELSE objs,
         op |-> Op("patch", target.kind, target.namespace, target.name, err),
         err |-> err]

\* the error of the Get that looks for the target
GetTargetErrors(objs, target) ==
    {IF e # NoError THEN e
     ELSE IF ~Exists(objs, target.kind, target.namespace, target.name) THEN NotFoundError
     ELSE NoError : e \in CallErrors}

UpdateTarget(objs, target) ==
    {IF getErr # NoError THEN Create(objs, target, e) ELSE Patch(objs, target, e)
     : getErr \in GetTargetErrors(objs, target), e \in CallErrors}

\* the loop of UpdateTargets over the built targets, from target i
RECURSIVE UpdateTargetsLoop(_, _, _, _)
UpdateTargetsLoop(objs, targets, i, done) ==
    IF i > Len(targets) THEN {[objects |-> objs, ops |-> done, err |-> NoError]}
    ELSE UNION {IF u.err # NoError
                    THEN {[objects |-> u.objects, ops |-> Append(done, u.op),
                           err |-> u.err]}
                ELSE UpdateTargetsLoop(u.objects, targets, i + 1, Append(done, u.op))
                : u \in UpdateTarget(objs, targets[i])}

\* UpdateBuilt that reports a failed write with the reason of the namespaces
UpdateBuiltWrongReason(built, objs, time) ==
    IF built.err # NoError
        THEN {[objects |-> objs, ops |-> <<>>, err |-> built.err,
               conditions |-> built.conditions, built |-> built]}
    ELSE {IF loop.err # NoError
              THEN [objects |-> loop.objects, ops |-> loop.ops, err |-> loop.err,
                    conditions |-> UpdateReplikaCondition(built.conditions,
                                       TargetNamespaceNotFoundCondition(time), time),
                    built |-> built]
          ELSE [objects |-> loop.objects, ops |-> loop.ops, err |-> NoError,
                conditions |-> built.conditions, built |-> built]
          : loop \in UpdateTargetsLoop(objs, built.targets, 1, <<>>)}

\* UpdateTargets once the targets are built
UpdateBuilt(built, objs, time) ==
    IF built.err # NoError
        THEN {[objects |-> objs, ops |-> <<>>, err |-> built.err,
               conditions |-> built.conditions, built |-> built]}
    ELSE {IF loop.err # NoError
              THEN [objects |-> loop.objects, ops |-> loop.ops, err |-> loop.err,
                    conditions |-> UpdateReplikaCondition(built.conditions,
                                       SourceReplicationFailedCondition(time), time),
                    built |-> built]
          ELSE [objects |-> loop.objects, ops |-> loop.ops, err |-> NoError,
                conditions |-> built.conditions, built |-> built]
          : loop \in UpdateTargetsLoop(objs, built.targets, 1, <<>>)}

UpdateTargets(replika, objs, time) ==
    UNION {UpdateBuilt(built, objs, time) : built \in BuildTargets(replika, objs, time)}

-----------------------------------------------------------------------------
(* DeleteTargets *)

\* the objects of a kind that carry part-of = name, as the list call returns them
RECURSIVE ListByLabel(_, _, _, _, _)
ListByLabel(objs, kind, name, i, j) ==
    IF i > Len(AllNamespaces) THEN <<>>
    ELSE IF j > Len(AllObjNames) THEN ListByLabel(objs, kind, name, i + 1, 1)
    ELSE LET key == <<kind, AllNamespaces[i], AllObjNames[j]>>
             rest == ListByLabel(objs, kind, name, i, j + 1)
         IN  IF /\ objs[key] # Absent
                /\ objs[key].labels[resourceReplikaLabelPartOfKey] = name
                 THEN <<key>> \o rest
             ELSE rest

\* r.Delete of a listed object
Delete(objs, key, e) ==
    [objects |-> IF e = NoError THEN [objs EXCEPT ![key] = Absent] ELSE objs,
     op |-> Op("delete", key[1], key[2], key[3], e),
     err |-> e]

\* DeleteLoop that goes on after a failed delete and returns the last error
RECURSIVE DeleteLoopKeepsGoing(_, _, _, _)
DeleteLoopKeepsGoing(objs, items, i, done) ==
    IF i > Len(items)
        THEN {[objects |-> objs, ops |-> done,
               err |-> IF done = <<>> THEN NoError ELSE done[Len(done)].err]}
    ELSE UNION {DeleteLoopKeepsGoing(d.objects, items, i + 1, Append(done, d.op))
                : d \in {Delete(objs, items[i], e) : e \in CallErrors}}

\* the loop of DeleteTargets over the listed items, from item i
RECURSIVE DeleteLoop(_, _, _, _)
DeleteLoop(objs, items, i, done) ==
    IF i > Len(items) THEN {[objects |-> objs, ops |-> done, err |-> NoError]}
    ELSE UNION {IF d.err # NoError
                    THEN {[objects |-> d.objects, ops |-> Append(done, d.op),
                           err |-> d.err]}
                ELSE DeleteLoop(d.objects, items, i + 1, Append(done, d.op))
                : d \in {Delete(objs, items[i], e) : e \in CallErrors}}

DeleteTargets(replika, objs) ==
    {[objects |-> objs, ops |-> <<>>, err |-> ApiError, listed |-> <<>>]}
    \cup
    LET items == ListByLabel(objs, replika.spec.source.kind, replika.name, 1, 1)
    IN  {[objects |-> loop.objects, ops |-> loop.ops, err |-> loop.err, listed |-> items]
         : loop \in DeleteLoop(objs, items, 1, <<>>)}

-----------------------------------------------------------------------------
(* Reconcile.  A pass leaves in `last` the Replika as it read it          *)
(* (manifest), the branch it took, the conditions of its in-memory Replika *)
(* when it returned, what UpdateTargets or DeleteTargets computed, and the *)
(* result and error it returned; in `ops` the writes it issued.            *)

NoRequeue == 0
ReplikaOp(verb, name, err) == Op(verb, "Replika", NoNs, name, err)

\* r.Update of the Replika without its finalizer: no finalizer is left on an
\* object marked for deletion, so the server purges it
RemoveFinalizer(stored, e) ==
    [replika |-> IF e = NoError THEN NoReplika ELSE stored,
     op |-> ReplikaOp("removeFinalizer", stored.name, e),
     err |-> e]

\* what DeleteTargets did, for `last`
DeletionSummary(deleted) == [err |-> deleted.err, listed |-> deleted.listed]

\* DeletionAfterDelete that logs a failure of DeleteTargets and goes on
DeletionAfterDeleteAlwaysRemoves(stored, deleted) ==
    {[replika |-> u.replika, objects |-> deleted.objects,
      ops |-> Append(deleted.ops, u.op), err |-> NoError,
      deletion |-> <<DeletionSummary(deleted)>>]
     : u \in {RemoveFinalizer(stored, e) : e \in CallErrors}}

\* 3. the deletion branch once DeleteTargets has returned
DeletionAfterDelete(stored, deleted) ==
    IF deleted.err # NoError
        THEN {[replika |-> stored, objects |-> deleted.objects, ops |-> deleted.ops,
               err |-> deleted.err, deletion |-> <<DeletionSummary(deleted)>>]}
    ELSE {[replika |-> u.replika, objects |-> deleted.objects,
           ops |-> Append(deleted.ops, u.op), err |-> NoError,
           deletion |-> <<DeletionSummary(deleted)>>]
          : u \in {RemoveFinalizer(stored, e) : e \in CallErrors}}

\* 3. the Replika is marked to be deleted
DeletionBranch(stored, objs) ==
    IF stored.finalizer
        THEN UNION {DeletionAfterDelete(stored, deleted)
                    : deleted \in DeleteTargets(stored, objs)}
    ELSE {[replika |-> stored, objects |-> objs, ops |-> <<>>, err |-> NoError,
           deletion |-> <<>>]}

\* EnsureFinalizer that does not return the error of the update
EnsureFinalizerIgnoresError(stored) ==
    IF ~stored.finalizer
        THEN {[replika |-> IF e = NoError THEN [stored EXCEPT !.finalizer = TRUE]
                           ELSE stored,
               ops |-> <<ReplikaOp("addFinalizer", stored.name, e)>>,
               err |-> NoError] : e \in CallErrors}
    ELSE {[replika |-> stored, ops |-> <<>>, err |-> NoError]}

\* 4. add the finalizer and persist it
EnsureFinalizer(stored) ==
    IF ~stored.finalizer
        THEN {[replika |-> IF e = NoError THEN [stored EXCEPT !.finalizer = TRUE]
                           ELSE stored,
               ops |-> <<ReplikaOp("addFinalizer", stored.name, e)>>,
               err |-> e] : e \in CallErrors}
    ELSE {[replika |-> stored, ops |-> <<>>, err |-> NoError]}

\* 6.-8. after UpdateTargets: the requeue time and the condition of success
SyncAfterUpdate(manifest, updated, time) ==
    LET requeue == GetSynchronizationTime(manifest.spec)
    IN  IF updated.err # NoError
            THEN [conditions |-> updated.conditions, requeueAfter |-> NoRequeue,
                  err |-> updated.err]
        ELSE IF requeue.err # NoError
            THEN [conditions |-> updated.conditions, requeueAfter |-> NoRequeue,
                  err |-> requeue.err]
        ELSE [conditions |-> UpdateReplikaCondition(updated.conditions,
                                 SourceSyncedCondition(time), time),
              requeueAfter |-> requeue.seconds, err |-> NoError]

\* deferred update that writes the status at the end of every pass
DeferredStatusUpdateAlwaysWrites(stored, conditions) ==
    {[replika |-> stored, ops |-> <<>>, err |-> ApiError]}
    \cup
    {[replika |-> IF e = NoError THEN [stored EXCEPT !.conditions = conditions]
                  ELSE stored,
      ops |-> <<ReplikaOp("updateStatus", stored.name, e)>>,
      err |-> e] : e \in CallErrors}

\* 5. the deferred function: it assigns the error that Reconcile returns
DeferredStatusUpdate(stored, conditions) ==
    {[replika |-> stored, ops |-> <<>>, err |-> ApiError]}
    \cup
    IF SameConditions(conditions, stored.conditions)
        THEN {[replika |-> stored, ops |-> <<>>, err |-> NoError]}
    ELSE {[replika |-> IF e = NoError THEN [stored EXCEPT !.conditions = conditions]
                       ELSE stored,
           ops |-> <<ReplikaOp("updateStatus", stored.name, e)>>,
           err |-> e] : e \in CallErrors}

\* what a pass leaves in `last`
PassRecord(req, manifest, branch, conditions, sync, deletion, requeueAfter, stageErr, err) ==
    [req |-> req, manifest |-> manifest, branch |-> branch, conditions |-> conditions,
     sync |-> sync, deletion |-> deletion, requeueAfter |-> requeueAfter,
     stageErr |-> stageErr, err |-> err]

NoPass == [branch |-> "none"]

\* no call of a function is under observation
NoCall == [fn |-> "none"]

\* what UpdateTargets did, for `last`
SyncSummary(updated) ==
    [err |-> updated.err, targets |-> updated.built.targets,
     buildErr |-> updated.built.err, sourceErr |-> updated.built.source.err,
     resolved |-> updated.built.resolved]

\* pass that stores the synchronization time it has used in the spec
SyncAfterFinalizerStoresTime(req, stored, f, objs, time) ==
    UNION {LET s == SyncAfterUpdate(f.replika, updated, time)
           IN  {[replika |-> [d.replika EXCEPT !.spec.time = "15s"],
                 objects |-> updated.objects,
                 ops |-> f.ops \o updated.ops \o d.ops,
                 last |-> PassRecord(req, stored, "sync", s.conditions,
                                     <<SyncSummary(updated)>>, <<>>, s.requeueAfter,
                                     s.err, d.err)]
                : d \in DeferredStatusUpdate(f.replika, s.conditions)}
           : updated \in UpdateTargets(f.replika, objs, time)}

\* 5.-8. the pass from the deferred status update on
SyncAfterFinalizer(req, stored, f, objs, time) ==
    UNION {LET s == SyncAfterUpdate(f.replika, updated, time)
           IN  {[replika |-> d.replika, objects |-> updated.objects,
                 ops |-> f.ops \o updated.ops \o d.ops,
                 last |-> PassRecord(req, stored, "sync", s.conditions,
                                     <<SyncSummary(updated)>>, <<>>, s.requeueAfter,
                                     s.err, d.err)]
                : d \in DeferredStatusUpdate(f.replika, s.conditions)}
           : updated \in UpdateTargets(f.replika, objs, time)}

\* 4.-8. the Replika is not marked to be deleted
SyncBranch(req, stored, objs, time) ==
    UNION {IF f.err # NoError
               THEN {[replika |-> f.replika, objects |-> objs, ops |-> f.ops,
                      last |-> PassRecord(req, stored, "finalizerError",
                                          stored.conditions, <<>>, <<>>, NoRequeue,
                                          f.err, f.err)]}
           ELSE SyncAfterFinalizer(req, stored, f, objs, time)
           : f \in EnsureFinalizer(stored)}

\* passes that return the not-found error of the Get
ReconcilePassReturnsNotFound(req, stored, objs, time) ==
    {[replika |-> stored, objects |-> objs, ops |-> <<>>,
      last |-> PassRecord(req, NoReplika, "getError", <<>>, <<>>, <<>>,
                          NoRequeue, ApiError, ApiError)]}
    \cup
    IF stored = NoReplika
        THEN {[replika |-> stored, objects |-> objs, ops |-> <<>>,
               last |-> PassRecord(req, NoReplika, "notFound", <<>>, <<>>, <<>>,
                                   NoRequeue, NotFoundError, NotFoundError)]}
    ELSE IF stored.deleting
        THEN {[replika |-> d.replika, objects |-> d.objects, ops |-> d.ops,
               last |-> PassRecord(req, stored, "deleting", stored.conditions, <<>>,
                                   d.deletion, NoRequeue, d.err, d.err)]
              : d \in DeletionBranch(stored, objs)}
    ELSE SyncBranch(req, stored, objs, time)

\* the passes Reconcile can make on a request for req
ReconcilePass(req, stored, objs, time) ==
    {[replika |-> stored, objects |-> objs, ops |-> <<>>,
      last |-> PassRecord(req, NoReplika, "getError", <<>>, <<>>, <<>>,
                          NoRequeue, ApiError, ApiError)]}
    \cup
    IF stored = NoReplika
        THEN {[replika |-> stored, objects |-> objs, ops |-> <<>>,
               last |-> PassRecord(req, NoReplika, "notFound", <<>>, <<>>, <<>>,
                                   NoRequeue, NoError, NoError)]}
    ELSE IF stored.deleting
        THEN {[replika |-> d.replika, objects |-> d.objects, ops |-> d.ops,
               last |-> PassRecord(req, stored, "deleting", stored.conditions, <<>>,
                                   d.deletion, NoRequeue, d.err, d.err)]
              : d \in DeletionBranch(stored, objs)}
    ELSE SyncBranch(req, stored, objs, time)

Reconcile(r) ==
    \E pass \in ReconcilePass(r, replikas[r], objects, now) :
        /\ replikas' = [replikas EXCEPT ![r] = pass.replika]
        /\ objects' = pass.objects
        /\ ops' = pass.ops
        /\ last' = pass.last
        /\ UNCHANGED <<now, edits, call, reconciler, goroutines>>

-----------------------------------------------------------------------------
(* The users of the cluster *)

Source(ns) == [kind |-> "ConfigMap", name |-> "x", namespace |-> ns]

Policies ==
    { [matchAll |-> TRUE,  replicateIn |-> <<>>, excludeFrom |-> <<>>],
      [matchAll |-> TRUE,  replicateIn |-> <<>>, excludeFrom |-> <<NsB>>],
      [matchAll |-> TRUE,  replicateIn |-> <<>>, excludeFrom |-> <<NsBad>>],
      [matchAll |-> FALSE, replicateIn |-> <<>>, excludeFrom |-> <<>>],
      [matchAll |-> FALSE, replicateIn |-> <<NsA, NsB>>, excludeFrom |-> <<>>],
      [matchAll |-> FALSE, replicateIn |-> <<NsB, NsDefault>>, excludeFrom |-> <<>>],
      [matchAll |-> FALSE, replicateIn |-> <<NsB, NsBad>>, excludeFrom |-> <<>>],
      [matchAll |-> FALSE, replicateIn |-> <<NsGhost, NsB>>, excludeFrom |-> <<>>] }

SourceNamespaces == {NsA, NsDefault}

ReplikaSpec(ns, policy, time) ==
    [source |-> Source(ns), matchAll |-> policy.matchAll,
     replicateIn |-> policy.replicateIn, excludeFrom |-> policy.excludeFrom,
     time |-> time]

SpecChoices ==
    {ReplikaSpec(ns, p, "20s") : ns \in SourceNamespaces, p \in Policies}
    \cup {ReplikaSpec(NsA, p, "soon") : p \in {q \in Policies : q.matchAll /\ q.excludeFrom = <<>>}}

NewReplika(r, spec) ==
    [name |-> r, spec |-> spec, finalizer |-> FALSE, deleting |-> FALSE,
     conditions |-> <<>>]

UserCreateReplika(r) ==
    /\ edits < MaxEdits
    /\ replikas[r] = NoReplika
    /\ \E spec \in SpecChoices : replikas' = [replikas EXCEPT ![r] = NewReplika(r, spec)]
    /\ edits' = edits + 1
    /\ ops' = <<>>
    /\ last' = NoPass
    /\ UNCHANGED <<objects, now, call, reconciler, goroutines>>

UserEditSpec(r) ==
    /\ edits < MaxEdits
    /\ replikas[r] # NoReplika
    /\ \E spec \in SpecChoices \ {replikas[r].spec} :
           replikas' = [replikas EXCEPT ![r].spec = spec]
    /\ edits' = edits + 1
    /\ ops' = <<>>
    /\ last' = NoPass
    /\ UNCHANGED <<objects, now, call, reconciler, goroutines>>

\* a delete request: the object stays, marked, while it has a finalizer
UserDeleteReplika(r) ==
    /\ edits < MaxEdits
    /\ replikas[r] # NoReplika
    /\ ~replikas[r].deleting
    /\ replikas' = [replikas EXCEPT ![r] =
                       IF @.finalizer THEN [@ EXCEPT !.deleting = TRUE] ELSE NoReplika]
    /\ edits' = edits + 1
    /\ ops' = <<>>
    /\ last' = NoPass
    /\ UNCHANGED <<objects, now, call, reconciler, goroutines>>

\* someone else writes an object: its content changes, its controller labels stay
ExternalPut(key) ==
    /\ edits < MaxEdits
    /\ \E u \in UserObjects :
           LET old == objects[key]
               new == IF old = Absent THEN u
                      ELSE [u EXCEPT !.labels =
                               [l \in LabelKeys |-> IF l = UserLabelKey THEN u.labels[l]
                                                    ELSE old.labels[l]]]
           IN  /\ new # old
               /\ objects' = [objects EXCEPT ![key] = new]
    /\ edits' = edits + 1
    /\ ops' = <<>>
    /\ last' = NoPass
    /\ UNCHANGED <<replikas, now, call, reconciler, goroutines>>

ExternalDelete(key) ==
    /\ edits < MaxEdits
    /\ objects[key] # Absent
    /\ objects' = [objects EXCEPT ![key] = Absent]
    /\ edits' = edits + 1
    /\ ops' = <<>>
    /\ last' = NoPass
    /\ UNCHANGED <<replikas, now, call, reconciler, goroutines>>

-----------------------------------------------------------------------------
(* The specification *)

\* the Replikas the controller may find when it starts: just created, or
\* carrying the condition a pass of an earlier run has persisted
FoundReplikas(r) ==
    {NewReplika(r, spec) : spec \in SpecChoices}
    \cup {[NewReplika(r, spec) EXCEPT !.conditions = <<SourceSyncedCondition(0)>>] :
             spec \in {c \in SpecChoices : c.replicateIn # <<>> /\ c.source.namespace = NsA}}

Init ==
    /\ replikas \in [ReplikaNames -> {NoReplika} \cup UNION {FoundReplikas(r) : r \in ReplikaNames}]
    /\ objects \in {o \in [ObjKeys -> {Absent} \cup UserObjects] :
                       \A key \in ObjKeys : key[2] \notin SourceNamespaces => o[key] = Absent}
    /\ ops = <<>>
    /\ last = NoPass
    /\ now = 0
    /\ edits = 0
    /\ call = NoCall
    /\ reconciler = NewReconciler
    /\ goroutines = <<>>

Next ==
    \/ \E r \in ReplikaNames : Reconcile(r)
    \/ \E r \in ReplikaNames : UserCreateReplika(r)
    \/ \E r \in ReplikaNames : UserEditSpec(r)
    \/ \E r \in ReplikaNames : UserDeleteReplika(r)
    \/ \E key \in ObjKeys : ExternalPut(key)
    \/ \E key \in ObjKeys : ExternalDelete(key)

Spec == Init /\ [][Next]_vars

-----------------------------------------------------------------------------
(* A cluster where a Replika names a source of kind Namespace.  The        *)
(* reconciler addresses every kind alike, by kind, namespace and name      *)
(* (GetSource, UpdateTarget), so objects of that kind are kept under such  *)
(* keys too.                                                               *)

NamespaceKind == "Namespace"

NamespaceKeys == {NamespaceKind} \X LiveNamespaces \X ObjNames

NamespaceKindSpecs ==
    {[spec EXCEPT !.source.kind = NamespaceKind] :
        spec \in {c \in SpecChoices : /\ c.source.namespace = NsA
                                      /\ c.time = "20s"
                                      /\ WellFormed(c.replicateIn)
                                      /\ WellFormed(c.excludeFrom)}}

KindsInit ==
    /\ replikas \in [ReplikaNames -> {NewReplika("r1", spec) : spec \in NamespaceKindSpecs}]
    /\ objects \in {o \in [ObjKeys \cup NamespaceKeys -> {Absent} \cup UserObjects] :
                       \A key \in DOMAIN o :
                           (key[1] # NamespaceKind \/ key[2] # NsA) => o[key] = Absent}
    /\ ops = <<>>
    /\ last = NoPass
    /\ now = 0
    /\ edits = 0
    /\ call = NoCall
    /\ reconciler = NewReconciler
    /\ goroutines = <<>>

SpecKinds == KindsInit /\ [][Next]_vars

-----------------------------------------------------------------------------
(* Two Replikas in one cluster: their passes and their deletions interleave *)

OwnerNames == {"r1", "r2"}

\* the specs of the two Replikas: sources a/x or default/x, copies in b
OwnerSpecs ==
    {ReplikaSpec(ns, [matchAll |-> FALSE, replicateIn |-> <<NsB>>, excludeFrom |-> <<>>],
                 "20s") : ns \in SourceNamespaces}

OwnersInit ==
    /\ \E specOf \in [OwnerNames -> OwnerSpecs] :
           replikas = [r \in OwnerNames |-> NewReplika(r, specOf[r])]
    /\ objects \in {o \in [ObjKeys -> {Absent} \cup UserObjects] :
                       \A key \in ObjKeys :
                           IF key[2] \in SourceNamespaces THEN o[key] # Absent
                           ELSE o[key] = Absent}
    /\ ops = <<>>
    /\ last = NoPass
    /\ now = 0
    /\ edits = 0
    /\ call = NoCall
    /\ reconciler = NewReconciler
    /\ goroutines = <<>>

OwnersNext ==
    \/ \E r \in OwnerNames : Reconcile(r)
    \/ \E r \in OwnerNames : UserDeleteReplika(r)

SpecOwners == OwnersInit /\ [][OwnersNext]_vars

-----------------------------------------------------------------------------
(* The reconciler of controllers/replika_controller.go:61-343, the first   *)
(* per-event Reconcile: resolution, synchronization and deletion log their *)
(* errors and go on, and every synchronization pass ends with a fixed      *)
(* condition written by `test`.                                            *)

InvalidError == "invalid"

\* regexp.Match with the expression [a-z0-9]([-a-z0-9]*[a-z0-9])?, which is
\* not anchored: a name matches when one of its characters does
EarlyMatch(name) == \E i \in 1..Len(name) : name[i] \in LowerAlnum

\* GetNamespaces of replika_controller.go once the list call has answered
EarlyGetNamespacesListed(spec, listed) ==
    LET Kept(ns) == /\ ns # spec.source.namespace
                    /\ ns \notin Range(spec.excludeFrom)
        Chosen(v) == EarlyMatch(v) /\ v # spec.source.namespace
    IN  IF spec.matchAll
            THEN IF listed.err # NoError
                     THEN [namespaces |-> <<>>, err |-> listed.err]
                 ELSE [namespaces |-> SelectSeq(listed.items, Kept), err |-> NoError]
        ELSE IF Len(spec.replicateIn) = 0
            THEN [namespaces |-> IF spec.source.namespace # defaultTargetNamespace
                                     THEN <<defaultTargetNamespace>> ELSE <<>>,
                  err |-> NoError]
        ELSE [namespaces |-> SelectSeq(spec.replicateIn, Chosen), err |-> NoError]

EarlyGetNamespaces(spec) ==
    {EarlyGetNamespacesListed(spec, listed) : listed \in ListNamespaces}

\* GetSynchronizationTime: the default duration comes back with the error
EarlyGetSynchronizationTime(spec) ==
    LET parsed == ParseDuration(spec.time)
    IN  IF parsed.err # NoError
            THEN [seconds |-> defaultSynchronizationTime, err |-> parsed.err]
        ELSE [seconds |-> parsed.seconds, err |-> NoError]

\* r.Create; the server refuses an object without a name
EarlyCreate(objs, target, e) ==
    IF target.name = ""
        THEN [objects |-> objs,
              op |-> Op("create", target.kind, target.namespace, target.name,
                        IF e # NoError THEN e ELSE InvalidError),
              err |-> IF e # NoError THEN e ELSE InvalidError]
    ELSE Create(objs, target, e)

\* r.Update with the manifest: the stored object becomes the manifest
EarlyUpdate(objs, target, e) ==
    LET key == <<target.kind, target.namespace, target.name>>
        err == IF e # NoError THEN e
               ELSE IF ~Exists(objs, target.kind, target.namespace, target.name)
                   THEN NotFoundError
               ELSE NoError
    IN  [objects |-> IF err = NoError THEN [objs EXCEPT ![key] = StoredObject(target)]
                     ELSE objs,
         op |-> Op("update", target.kind, target.namespace, target.name, err),
         err |-> err]

\* UpdateTarget: create on any error of the Get, else a full update
EarlyUpdateTarget(objs, target) ==
    {IF getErr # NoError THEN EarlyCreate(objs, target, e) ELSE EarlyUpdate(objs, target, e)
     : getErr \in GetTargetErrors(objs, target), e \in CallErrors}

\* the loop of UpdateTargets: an error is logged, the loop goes on
RECURSIVE EarlyUpdateLoop(_, _, _, _, _)
EarlyUpdateLoop(objs, targets, i, done, err) ==
    IF i > Len(targets) THEN {[objects |-> objs, ops |-> done, err |-> err]}
    ELSE UNION {EarlyUpdateLoop(u.objects, targets, i + 1, Append(done, u.op), u.err)
                : u \in EarlyUpdateTarget(objs, targets[i])}

\* the manifest built from what the Get of the source left in `source`
EarlyTargetManifest(replika, got, ns) ==
    LET source == IF got.err # NoError THEN EmptyObject ELSE got.source
    IN  [kind |-> replika.spec.source.kind,
         namespace |-> ns,
         name |-> IF got.err # NoError THEN "" ELSE replika.spec.source.name,
         labels |-> [source.labels EXCEPT
                        ![resourceReplikaLabelCreatedKey] = resourceReplikaLabelCreatedValue,
                        ![resourceReplikaLabelPartOfKey] = replika.name],
         annotations |-> source.annotations,
         data |-> source.data]

EarlyUpdateTargets(replika, objs) ==
    UNION {EarlyUpdateLoop(objs,
                           [i \in 1..Len(resolved.namespaces) |->
                               EarlyTargetManifest(replika, got, resolved.namespaces[i])],
                           1, <<>>, got.err)
           : resolved \in EarlyGetNamespaces(replika.spec),
             got \in GetSource(replika.spec, objs)}

\* r.Delete of the object of the name of the source in a namespace
EarlyDelete(objs, key, e) ==
    LET err == IF e # NoError THEN e
               ELSE IF ~Exists(objs, key[1], key[2], key[3]) THEN NotFoundError
               ELSE NoError
    IN  [objects |-> IF err = NoError THEN [objs EXCEPT ![key] = Absent] ELSE objs,
         op |-> Op("delete", key[1], key[2], key[3], err),
         err |-> err]

\* the loop of DeleteTargets: an error is logged, the loop goes on
RECURSIVE EarlyDeleteLoop(_, _, _, _, _)
EarlyDeleteLoop(objs, keys, i, done, err) ==
    IF i > Len(keys) THEN {[objects |-> objs, ops |-> done, err |-> err]}
    ELSE UNION {EarlyDeleteLoop(d.objects, keys, i + 1, Append(done, d.op), d.err)
                : d \in {EarlyDelete(objs, keys[i], e) : e \in CallErrors}}

\* DeleteTargets: one delete in every namespace resolved now
EarlyDeleteTargets(replika, objs) ==
    UNION {EarlyDeleteLoop(objs,
                           [i \in 1..Len(resolved.namespaces) |->
                               <<replika.spec.source.kind, resolved.namespaces[i],
                                 replika.spec.source.name>>],
                           1, <<>>, resolved.err)
           : resolved \in EarlyGetNamespaces(replika.spec)}

\* the condition `test` writes
EarlyTestCondition(time) ==
    NewReplikaCondition("SyncReplica", ConditionFalse, "FailedCreateTarget",
                        "uno de prueba", time)

\* test: the conditions are replaced and the status is updated
EarlyTest(stored, time) ==
    {[replika |-> IF e = NoError
                      THEN [stored EXCEPT !.conditions = <<EarlyTestCondition(time)>>]
                  ELSE stored,
      ops |-> <<ReplikaOp("updateStatus", stored.name, e)>>] : e \in CallErrors}

\* 3. the Replika is marked to be deleted
EarlyDeletionBranch(req, stored, objs) ==
    IF ~stored.finalizer
        THEN {[replika |-> stored, objects |-> objs, ops |-> <<>>,
               last |-> PassRecord(req, stored, "deleting", stored.conditions, <<>>,
                                   <<>>, NoRequeue, NoError, NoError)]}
    ELSE UNION {IF d.err # NoError
                    THEN {[replika |-> stored, objects |-> d.objects, ops |-> d.ops,
                           last |-> PassRecord(req, stored, "deleting",
                                               stored.conditions, <<>>, <<>>,
                                               NoRequeue, d.err, d.err)]}
                ELSE {[replika |-> u.replika, objects |-> d.objects,
                       ops |-> Append(d.ops, u.op),
                       last |-> PassRecord(req, stored, "deleting",
                                           stored.conditions, <<>>, <<>>,
                                           NoRequeue, u.err, u.err)]
                      : u \in {RemoveFinalizer(stored, e) : e \in CallErrors}}
                : d \in EarlyDeleteTargets(stored, objs)}

\* 5.-6. synchronization, requeue time and `test`: no error is returned
EarlySyncBranch(req, stored, f, objs, time) ==
    UNION {{[replika |-> t.replika, objects |-> updated.objects,
             ops |-> f.ops \o updated.ops \o t.ops,
             last |-> PassRecord(req, stored, "sync", <<EarlyTestCondition(time)>>,
                                 <<>>, <<>>,
                                 EarlyGetSynchronizationTime(stored.spec).seconds,
                                 updated.err, NoError)]
            : t \in EarlyTest(f.replika, time)}
           : updated \in EarlyUpdateTargets(f.replika, objs)}

\* the passes of Reconcile of replika_controller.go on a request for req
EarlyReconcilePass(req, stored, objs, time) ==
    {[replika |-> stored, objects |-> objs, ops |-> <<>>,
      last |-> PassRecord(req, NoReplika, "getError", <<>>, <<>>, <<>>,
                          NoRequeue, ApiError, NoError)]}
    \cup
    IF stored = NoReplika
        THEN {[replika |-> stored, objects |-> objs, ops |-> <<>>,
               last |-> PassRecord(req, NoReplika, "notFound", <<>>, <<>>, <<>>,
                                   NoRequeue, NoError, NoError)]}
    ELSE IF stored.deleting
        THEN EarlyDeletionBranch(req, stored, objs)
    ELSE UNION {IF f.err # NoError
                    THEN {[replika |-> f.replika, objects |-> objs, ops |-> f.ops,
                           last |-> PassRecord(req, stored, "finalizerError",
                                               stored.conditions, <<>>, <<>>,
                                               NoRequeue, f.err, f.err)]}
                ELSE EarlySyncBranch(req, stored, f, objs, time)
                : f \in EnsureFinalizer(stored)}

EarlyReconcile(r) ==
    \E pass \in EarlyReconcilePass(r, replikas[r], objects, now) :
        /\ replikas' = [replikas EXCEPT ![r] = pass.replika]
        /\ objects' = pass.objects
        /\ ops' = pass.ops
        /\ last' = pass.last
        /\ UNCHANGED <<now, edits, call, reconciler, goroutines>>

EarlyInit ==
    /\ replikas \in [ReplikaNames ->
                        {NoReplika} \cup {NewReplika(r, spec) :
                                            r \in ReplikaNames, spec \in SpecChoices}]
    /\ objects \in {o \in [ObjKeys -> {Absent} \cup UserObjects] :
                       \A key \in ObjKeys : key[2] \notin SourceNamespaces => o[key] = Absent}
    /\ ops = <<>>
    /\ last = NoPass
    /\ now = 0
    /\ edits = 0
    /\ call = NoCall
    /\ reconciler = NewReconciler
    /\ goroutines = <<>>

EarlyNext ==
    \/ \E r \in ReplikaNames : EarlyReconcile(r)
    \/ \E r \in ReplikaNames : UserDeleteReplika(r)
    \/ \E key \in ObjKeys : ExternalDelete(key)

SpecEarly == EarlyInit /\ [][EarlyNext]_vars

-----------------------------------------------------------------------------
(* The polling-loop reconciler of controllers/replika_update.go:440-700:   *)
(* every Reconcile event of a Replika that exists stores the Replika in    *)
(* the field ReplikaInstance and starts one AsyncReconcile goroutine; an   *)
(* event whose Get fails sets the field QuitGoroutine and deletes targets. *)
(* Both fields are shared by Reconcile and all goroutines without a lock:  *)
(* every read below is a step of its own and sees the value of the moment. *)
(* UpdateTarget of this variant (504-542) is the create-or-update of       *)
(* replika_controller.go, EarlyUpdateTarget.                               *)

\* AsyncReconcile goroutines started per behaviour
MaxGoroutines == 2

\* bytes that NamespaceList.Size() counts for one listed namespace
BytesPerNamespace == 1

LoopNames == {"r1", "r2"}

Spaces == {" "}

RECURSIVE TrimLeft(_)
TrimLeft(str) ==
    IF str # <<>> /\ Head(str) \in Spaces THEN TrimLeft(Tail(str)) ELSE str

RECURSIVE TrimRight(_)
TrimRight(str) ==
    IF str # <<>> /\ str[Len(str)] \in Spaces
        THEN TrimRight(SubSeq(str, 1, Len(str) - 1))
    ELSE str

\* strings.TrimSpace
TrimSpace(str) == TrimRight(TrimLeft(str))

\* strings.Split(str, ","), from character i with the part read so far
RECURSIVE SplitFrom(_, _, _)
SplitFrom(str, i, current) ==
    IF i > Len(str) THEN <<current>>
    ELSE IF str[i] = "," THEN <<current>> \o SplitFrom(str, i + 1, <<>>)
    ELSE SplitFrom(str, i + 1, Append(current, str[i]))

\* namespace.Size(): the length of the encoding of the list
NamespaceListSize(items) == BytesPerNamespace * Len(items)

\* GetNamespaces(str) once the list call has answered: the list of "*" is
\* made with Size() empty entries and gets the namespace of every listed
\* Namespace object, which has none
LoopGetNamespacesListed(str, listed) ==
    LET trimmed == TrimSpace(str)
    IN  IF trimmed = <<>>
            THEN [namespaces |-> <<NsDefault>>, err |-> NoError]
        ELSE IF trimmed = <<"*">>
            THEN IF listed.err # NoError
                     THEN [namespaces |-> <<>>, err |-> listed.err]
                 ELSE [namespaces |->
                          [i \in 1..(NamespaceListSize(listed.items) + Len(listed.items))
                              |-> NoNs],
                       err |-> NoError]
        ELSE [namespaces |-> SplitFrom(trimmed, 1, <<>>), err |-> NoError]

LoopGetNamespaces(str) ==
    {LoopGetNamespacesListed(str, listed) : listed \in ListNamespaces}

\* DeleteTargets(ctx): namespaces, kind and name come from r.ReplikaInstance
LoopDeleteTargets(instance, objs) ==
    UNION {EarlyDeleteLoop(objs,
                           [i \in 1..Len(resolved.namespaces) |->
                               <<instance.spec.source.kind, resolved.namespaces[i],
                                 instance.spec.source.name>>],
                           1, <<>>, resolved.err)
           : resolved \in LoopGetNamespaces(instance.spec.namespaces)}

\* what a pass of Reconcile or a step of a goroutine did: the request (or
\* the Replika the goroutine was started for), and the name of the
\* ReplikaInstance that was used
LoopPass(req, branch, instance) ==
    [req |-> req, branch |-> branch, instance |-> instance, err |-> NoError]

NoInstance == "<nil>"

NewGoroutine(req) == [for |-> req, pc |-> "start", namespaces |-> <<>>, got |-> <<>>]

\* Reconcile, line 667: the flag is cleared before anything is read
LoopReconcileStart(req) ==
    /\ call = NoCall
    /\ reconciler' = [reconciler EXCEPT !.QuitGoroutine = FALSE]
    /\ call' = [kind |-> "Reconcile", req |-> req]
    /\ ops' = <<>>
    /\ last' = NoPass
    /\ UNCHANGED <<replikas, objects, now, edits, goroutines>>

\* Reconcile, lines 671-683: the Get failed
LoopReconcileGone(req) ==
    /\ \E e \in CallErrors : e # NoError \/ replikas[req] = NoReplika
    /\ IF reconciler.ReplikaInstance = NoReplika
           \* r.ReplikaInstance is nil in DeleteTargets: the process ends and
           \* is started again
           THEN /\ reconciler' = NewReconciler
                /\ goroutines' = <<>>
                /\ ops' = <<>>
                /\ last' = LoopPass(req, "panic", NoInstance)
                /\ UNCHANGED objects
       ELSE \E d \in LoopDeleteTargets(reconciler.ReplikaInstance, objects) :
                /\ reconciler' = [reconciler EXCEPT !.QuitGoroutine = TRUE]
                /\ objects' = d.objects
                /\ ops' = d.ops
                /\ last' = LoopPass(req, "gone", reconciler.ReplikaInstance.name)
                /\ UNCHANGED goroutines

\* Reconcile, lines 685-689: the Replika is stored and a goroutine started
LoopReconcileFound(req) ==
    /\ replikas[req] # NoReplika
    /\ Len(goroutines) < MaxGoroutines
    /\ reconciler' = [reconciler EXCEPT !.ReplikaInstance = replikas[req]]
    /\ goroutines' = Append(goroutines, NewGoroutine(req))
    /\ ops' = <<>>
    /\ last' = LoopPass(req, "started", req)
    /\ UNCHANGED objects

\* Reconcile from its Get to its return
LoopReconcile ==
    /\ call # NoCall
    /\ \/ LoopReconcileGone(call.req)
       \/ LoopReconcileFound(call.req)
    /\ call' = NoCall
    /\ UNCHANGED <<replikas, now, edits>>

\* AsyncReconcile, lines 580-591: duration and namespaces of the
\* ReplikaInstance of the moment
AsyncStart(g) ==
    /\ goroutines[g].pc = "start"
    /\ \E resolved \in LoopGetNamespaces(reconciler.ReplikaInstance.spec.namespaces) :
           goroutines' = [goroutines EXCEPT ![g].pc = "get",
                                            ![g].namespaces = resolved.namespaces]
    /\ ops' = <<>>
    /\ last' = NoPass
    /\ UNCHANGED <<replikas, objects, now, edits, call, reconciler>>

\* AsyncReconcile, lines 595-611: the Get of the source
AsyncGetSource(g) ==
    /\ goroutines[g].pc = "get"
    /\ \E got \in GetSource(reconciler.ReplikaInstance.spec, objects) :
           goroutines' = [goroutines EXCEPT ![g].pc = "write", ![g].got = <<got>>]
    /\ ops' = <<>>
    /\ last' = NoPass
    /\ UNCHANGED <<replikas, objects, now, edits, call, reconciler>>

\* AsyncReconcile, lines 614-641: the target is built with the name of the
\* ReplikaInstance of the moment and written to every namespace
AsyncUpdateTargets(g) ==
    /\ goroutines[g].pc = "write"
    /\ LET instance == reconciler.ReplikaInstance
           namespaces == goroutines[g].namespaces
       IN  \E u \in EarlyUpdateLoop(objects,
                                    [i \in 1..Len(namespaces) |->
                                        EarlyTargetManifest(instance, goroutines[g].got[1],
                                                            namespaces[i])],
                                    1, <<>>, NoError) :
               /\ objects' = u.objects
               /\ ops' = u.ops
               /\ last' = LoopPass(goroutines[g].for, "async", instance.name)
    /\ goroutines' = [goroutines EXCEPT ![g].pc = "sleep", ![g].got = <<>>]
    /\ UNCHANGED <<replikas, now, edits, call, reconciler>>

\* AsyncReconcile, lines 645-650: after the sleep the flag decides
AsyncCheckQuit(g) ==
    /\ goroutines[g].pc = "sleep"
    /\ goroutines' = [goroutines EXCEPT
                         ![g].pc = IF reconciler.QuitGoroutine THEN "done" ELSE "get"]
    /\ ops' = <<>>
    /\ last' = NoPass
    /\ UNCHANGED <<replikas, objects, now, edits, call, reconciler>>

\* the text of spec.target.namespaces
LoopNamespaceStrings(r) ==
    IF r = "r1" THEN {<<" ", "b">>, <<"b", ",">> \o NsDefault}
    ELSE {<<>>, NsDefault \o <<" ">>}

LoopReplika(r, str) ==
    NewReplika(r, [source |-> Source(NsA), namespaces |-> str, time |-> "20s"])

LoopInit ==
    /\ \E str1 \in LoopNamespaceStrings("r1"), str2 \in LoopNamespaceStrings("r2") :
           replikas = [r \in LoopNames |->
                          LoopReplika(r, IF r = "r1" THEN str1 ELSE str2)]
    /\ objects \in {o \in [ObjKeys -> {Absent} \cup UserObjects] :
                       \A key \in ObjKeys : IF key[2] = NsA THEN o[key] # Absent
                                            ELSE o[key] = Absent}
    /\ ops = <<>>
    /\ last = NoPass
    /\ now = 0
    /\ edits = 0
    /\ call = NoCall
    /\ reconciler = NewReconciler
    /\ goroutines = <<>>

LoopNext ==
    \/ \E req \in LoopNames : LoopReconcileStart(req)
    \/ LoopReconcile
    \/ \E g \in 1..Len(goroutines) : AsyncStart(g)
    \/ \E g \in 1..Len(goroutines) : AsyncGetSource(g)
    \/ \E g \in 1..Len(goroutines) : AsyncUpdateTargets(g)
    \/ \E g \in 1..Len(goroutines) : AsyncCheckQuit(g)
    \/ \E r \in LoopNames : UserDeleteReplika(r)

SpecLoop == LoopInit /\ [][LoopNext]_vars

\* the steps of goroutine g
AsyncReconcile(g) ==
    /\ g \in 1..Len(goroutines)
    /\ \/ AsyncStart(g)
       \/ AsyncGetSource(g)
       \/ AsyncUpdateTargets(g)
       \/ AsyncCheckQuit(g)

\* a goroutine that can run does run, and a Reconcile that has started
\* returns; events and deletions of Replikas may or may not come
SpecLoopLive ==
    /\ SpecLoop
    /\ \A g \in 1..MaxGoroutines : WF_vars(AsyncReconcile(g))
    /\ WF_vars(LoopReconcile)

-----------------------------------------------------------------------------
(* Calls of single functions: the inputs are drawn by CallsInit, a step    *)
(* applies the function to them.  GetNamespaces is called on every list of *)
(* namespaces the cluster may return, not only on the one of Spec.         *)

\* longest ReplicateIn and ExcludeFrom list of a call
MaxList == 2

SeqsUpTo(S, n) == UNION {[1..k -> S] : k \in 0..n}

\* the lists of namespaces a cluster may return: no name twice
Universes ==
    {u \in SeqsUpTo(LiveNamespaces, Cardinality(LiveNamespaces)) :
        /\ u # <<>>
        /\ \A i, j \in 1..Len(u) : u[i] = u[j] => i = j}

\* the replicateIn lists a policy with matchAll may carry as well
MatchAllReplicateIn == {<<>>, <<NsB>>, <<NsDefault, NsBad>>}

CallSpecs ==
    {ReplikaSpec(ns, [matchAll |-> TRUE, replicateIn |-> l, excludeFrom |-> e], "20s") :
        ns \in SourceNamespaces, l \in MatchAllReplicateIn,
        e \in SeqsUpTo({NsA, NsB, NsBad}, MaxList)}
    \cup
    {ReplikaSpec(ns, [matchAll |-> FALSE, replicateIn |-> l, excludeFrom |-> <<>>], "20s") :
        ns \in SourceNamespaces, l \in SeqsUpTo({NsA, NsB, NsDefault, NsBad}, MaxList)}

GetNamespacesCalls ==
    UNION {{[fn |-> "GetNamespaces", spec |-> spec,
             listed |-> [items |-> u, err |-> NoError],
             done |-> FALSE, result |-> <<>>] :
               u \in IF spec.matchAll THEN Universes ELSE {AllNamespaces}}
           : spec \in CallSpecs}

CallGetNamespaces ==
    /\ call.fn = "GetNamespaces"
    /\ ~call.done
    /\ call' = [call EXCEPT !.done = TRUE,
                            !.result = GetNamespacesListed(call.spec, call.listed)]
    /\ UNCHANGED <<replikas, objects, ops, last, now, edits, reconciler, goroutines>>

\* the sources BuildTargets may be given: any labels, the keys of the
\* controller included, a payload and perhaps a status
LabelValues == {NoValue, "v1", "other"}

SourceObjects ==
    {[labels |-> l, annotations |-> [a \in AnnotationKeys |-> "n"],
      data |-> [d \in DataKeys |-> "1"], status |-> st] :
        l \in [LabelKeys -> LabelValues], st \in {NoValue, "ready"}}

BuildTargetsCalls ==
    {[fn |-> "BuildTargets", replika |-> NewReplika(r, spec),
      got |-> [source |-> o, err |-> NoError], done |-> FALSE, result |-> <<>>] :
        r \in ReplikaNames, spec \in CallSpecs, o \in SourceObjects}

CallBuildTargets ==
    /\ call.fn = "BuildTargets"
    /\ ~call.done
    /\ \E built \in BuildFromSource(call.replika, call.got, now) :
           call' = [call EXCEPT !.done = TRUE, !.result = built]
    /\ UNCHANGED <<replikas, objects, ops, last, now, edits, reconciler, goroutines>>

\* calls in a row of one call (UpdateTarget, UpdateReplikaCondition)
MaxCalls == 2

\* UpdateTarget is called on a manifest of BuildTargets, for a namespace that
\* holds nothing, an object of a user or an earlier copy, or does not exist
UpdateTargetNamespaces == {NsB, NsGhost}

\* the Replika whose manifests are given to UpdateTarget
UpdateTargetReplika(r) ==
    NewReplika(r, ReplikaSpec(NsA, CHOOSE p \in Policies : p.matchAll, "20s"))

UpdateTargetCalls ==
    {[fn |-> "UpdateTarget",
      replika |-> UpdateTargetReplika(r),
      target |-> TargetManifest(UpdateTargetReplika(r), o, ns),
      before |-> <<>>, results |-> <<>>, deleted |-> <<>>] :
        r \in ReplikaNames, o \in SourceObjects, ns \in UpdateTargetNamespaces}

TargetKey(target) == <<target.kind, target.namespace, target.name>>

\* what is stored at the place of the manifest
StoredAt(objs, target) ==
    IF TargetKey(target) \in DOMAIN objs THEN objs[TargetKey(target)] ELSE Absent

CallUpdateTarget ==
    /\ call.fn = "UpdateTarget"
    /\ Len(call.results) < MaxCalls
    /\ call.deleted = <<>>
    /\ \E updated \in UpdateTarget(objects, call.target) :
           /\ objects' = updated.objects
           /\ call' = [call EXCEPT
                         !.before = IF call.results = <<>>
                                        THEN <<StoredAt(objects, call.target)>> ELSE @,
                         !.results = Append(@, [op |-> updated.op, err |-> updated.err,
                                                stored |-> StoredAt(updated.objects,
                                                                    call.target)])]
    /\ UNCHANGED <<replikas, ops, last, now, edits, reconciler, goroutines>>

\* a condition type other than the one Reconcile sets
ConditionTypeOther == "Ready"

\* condition lists without duplicate types that a replika may hold
ConditionLists ==
    LET synced == NewReplikaCondition(ConditionTypeSourceSynced, ConditionTrue,
                                      ConditionReasonSourceSynced,
                                      ConditionReasonSourceSyncedMessage, 0)
        other == NewReplikaCondition(ConditionTypeOther, ConditionTrue,
                                     ConditionReasonSourceSynced,
                                     ConditionReasonSourceSyncedMessage, 0)
    IN  {<<>>, <<synced>>, <<other, synced>>}

UpdateReplikaConditionCalls ==
    {[fn |-> "UpdateReplikaCondition", conditions |-> l, results |-> <<>>] :
        l \in ConditionLists}

\* the conditions a caller may pass: NewReplikaCondition, then the call
ConditionChoices(time) ==
    {NewReplikaCondition(t, st, why[1], why[2], time) :
        t \in {ConditionTypeSourceSynced, ConditionTypeOther},
        st \in {ConditionTrue, ConditionFalse},
        why \in {<<ConditionReasonSourceSynced, ConditionReasonSourceSyncedMessage>>,
                 <<ConditionReasonSourceNotFound, ConditionReasonSourceNotFoundMessage>>}}

\* one call; metav1.Now() moves on between two calls
CallUpdateReplikaCondition ==
    /\ call.fn = "UpdateReplikaCondition"
    /\ Len(call.results) < MaxCalls
    /\ now' = now + 1
    /\ \E condition \in ConditionChoices(now') :
           LET after == UpdateReplikaCondition(call.conditions, condition, now')
           IN  call' = [call EXCEPT
                          !.conditions = after,
                          !.results = Append(@, [before |-> call.conditions,
                                                 condition |-> condition,
                                                 after |-> after])]
    /\ UNCHANGED <<replikas, objects, ops, last, edits, reconciler, goroutines>>

\* DeleteTargets of the Replika, after the calls of UpdateTarget
CallDeleteTargets ==
    /\ call.fn = "UpdateTarget"
    /\ call.results # <<>>
    /\ call.deleted = <<>>
    /\ \E d \in DeleteTargets(call.replika, objects) :
           /\ objects' = d.objects
           /\ call' = [call EXCEPT
                         !.deleted = <<[err |-> d.err, listed |-> d.listed,
                                        stored |-> StoredAt(d.objects, call.target)]>>]
    /\ UNCHANGED <<replikas, ops, last, now, edits, reconciler, goroutines>>

CallsInit ==
    /\ replikas = [r \in ReplikaNames |-> NoReplika]
    /\ reconciler = NewReconciler
    /\ goroutines = <<>>
    /\ ops = <<>>
    /\ last = NoPass
    /\ now = 0
    /\ edits = 0
    /\ \/ /\ call \in GetNamespacesCalls \cup BuildTargetsCalls
          /\ objects = [key \in ObjKeys |-> Absent]
       \/ /\ call \in UpdateReplikaConditionCalls
          /\ objects = [key \in ObjKeys |-> Absent]
       \/ /\ call \in UpdateTargetCalls
          /\ objects \in {o \in [ObjKeys -> {Absent} \cup UserObjects] :
                             \A key \in ObjKeys : key[2] # NsB => o[key] = Absent}

CallsNext ==
    \/ CallGetNamespaces
    \/ CallBuildTargets
    \/ CallUpdateTarget
    \/ CallUpdateReplikaCondition
    \/ CallDeleteTargets

SpecCalls == CallsInit /\ [][CallsNext]_vars

-----------------------------------------------------------------------------
(* Properties.  `last` and `ops` describe the pass that has just ended:    *)
(* every step of a user resets them, so that replikas and objects are the  *)
(* cluster as that pass left it wherever last.branch is not "none".        *)

TargetWriteVerbs == {"create", "patch"}
OpIndexes == 1..Len(ops)
SyncPass == last.branch = "sync"
DeletingPass == last.branch = "deleting"
SourceKeyOf(spec) == <<spec.source.kind, spec.source.namespace, spec.source.name>>
OpKey(op) == <<op.kind, op.namespace, op.name>>

\* the SourceSynced condition of the in-memory Replika of the pass is False with reason
LastConditionIsFalse(reason) ==
    LET i == GetReplikaCondition(last.conditions, ConditionTypeSourceSynced, 1)
    IN  /\ i # 0
        /\ last.conditions[i].status = ConditionFalse
        /\ last.conditions[i].reason = reason

\* C1: in a pass, under every policy, no create or patch of a target is
\* addressed to the namespace of the source as the pass read it
C1_NoWriteInSourceNamespace ==
    SyncPass =>
        \A i \in OpIndexes :
            ops[i].verb \in TargetWriteVerbs
                => ops[i].namespace # last.manifest.spec.source.namespace

\* C1 witness: a matchAll pass over a cluster that holds the namespace of the
\* source has created and patched targets
C1_Witness ==
    /\ SyncPass
    /\ last.manifest.spec.matchAll
    /\ last.manifest.spec.source.namespace \in LiveNamespaces
    /\ \E i, j \in OpIndexes :
           /\ ops[i].verb = "create" /\ ops[i].err = NoError
           /\ ops[j].verb = "patch" /\ ops[j].err = NoError

\* C2: the list GetNamespaces returns never holds the namespace of the source
C2_ResolvedNeverHoldsSource ==
    (SyncPass /\ last.sync[1].resolved # <<>>) =>
        last.manifest.spec.source.namespace
            \notin Range(last.sync[1].resolved[1].namespaces)

\* C3: the controller never creates, patches or deletes the object that
\* spec.source names when the pass runs
C3_SourceNeverWritten ==
    (SyncPass \/ DeletingPass) =>
        \A i \in OpIndexes :
            ops[i].verb \in TargetWriteVerbs \cup {"delete"}
                => OpKey(ops[i]) # SourceKeyOf(last.manifest.spec)

\* C4: when the source cannot be fetched BuildTargets returns an error and no
\* target, the pass writes and deletes no target, and the SourceSynced condition
\* of the Replika of the pass is False, SourceNotFound
C4_SourceNotFound ==
    (SyncPass /\ last.sync[1].sourceErr # NoError) =>
        /\ last.sync[1].buildErr # NoError
        /\ last.sync[1].targets = <<>>
        /\ \A i \in OpIndexes : ops[i].verb \notin TargetWriteVerbs \cup {"delete"}
        /\ LastConditionIsFalse(ConditionReasonSourceNotFound)

\* C4 witness: a pass found no source where the Replika says, among objects
\* that exist elsewhere
C4_Witness ==
    /\ SyncPass
    /\ last.sync[1].sourceErr = NotFoundError
    /\ \E key \in ObjKeys : objects[key] # Absent

\* C5: in the deletion branch the finalizer is removed only after DeleteTargets
\* succeeded in this pass; when it failed the finalizer stays and the pass
\* returns the error
C5_FinalizerRemovedAfterDelete ==
    (DeletingPass /\ last.deletion # <<>>) =>
        /\ \A i \in OpIndexes :
               ops[i].verb = "removeFinalizer" =>
                   /\ last.deletion[1].err = NoError
                   /\ \A j \in 1..(i - 1) : ops[j].verb = "delete" /\ ops[j].err = NoError
        /\ last.deletion[1].err # NoError =>
               /\ \A i \in OpIndexes : ops[i].verb # "removeFinalizer"
               /\ replikas[last.req] # NoReplika
               /\ replikas[last.req].finalizer
               /\ last.err = last.deletion[1].err

\* C5 witness: a delete of DeleteTargets failed after another one succeeded
C5_Witness ==
    /\ DeletingPass
    /\ last.deletion # <<>>
    /\ last.deletion[1].err # NoError
    /\ Len(ops) >= 2
    /\ ops[1].verb = "delete" /\ ops[1].err = NoError

\* C6: a pass on a Replika that is not being deleted writes a target only
\* with the finalizer stored: an absent finalizer is added and persisted
\* first, and when that fails the pass ends before UpdateTargets
C6_FinalizerBeforeTargets ==
    (last.branch \in {"sync", "finalizerError"}) =>
        /\ \A i \in OpIndexes :
               ops[i].verb \in TargetWriteVerbs =>
                   /\ \/ last.manifest.finalizer
                      \/ \E j \in 1..(i - 1) :
                             ops[j].verb = "addFinalizer" /\ ops[j].err = NoError
                   /\ replikas[last.req] # NoReplika
                   /\ replikas[last.req].finalizer
        /\ (\E j \in OpIndexes : ops[j].verb = "addFinalizer" /\ ops[j].err # NoError) =>
               /\ Len(ops) = 1
               /\ last.sync = <<>>
               /\ last.err # NoError

\* C6 witness: a pass found no finalizer, stored it and created a target
C6_Witness ==
    /\ SyncPass
    /\ ~last.manifest.finalizer
    /\ Len(ops) >= 2
    /\ ops[1].verb = "addFinalizer" /\ ops[1].err = NoError
    /\ ops[2].verb = "create" /\ ops[2].err = NoError

\* C7: after DeleteTargets returned no error, no object of the kind of the
\* source carries part-of = the name of the Replika, in any namespace
C7_DeletionComplete ==
    (DeletingPass /\ last.deletion # <<>> /\ last.deletion[1].err = NoError) =>
        \A key \in ObjKeys :
            (key[1] = last.manifest.spec.source.kind /\ objects[key] # Absent)
                => objects[key].labels[resourceReplikaLabelPartOfKey] # last.req

\* C7 witness: DeleteTargets listed two objects and returned no error
C7_Witness ==
    /\ DeletingPass
    /\ last.deletion # <<>>
    /\ last.deletion[1].err = NoError
    /\ Len(last.deletion[1].listed) >= 2

\* C8: a target that fails does not end the batch: every target that was
\* built is attempted in the pass
C8_EveryTargetAttempted ==
    (SyncPass /\ last.sync[1].buildErr = NoError) =>
        \A t \in 1..Len(last.sync[1].targets) :
            \E i \in OpIndexes :
                /\ ops[i].verb \in TargetWriteVerbs
                /\ OpKey(ops[i]) = <<last.sync[1].targets[t].kind,
                                     last.sync[1].targets[t].namespace,
                                     last.sync[1].targets[t].name>>

\* C9: a delete that fails does not end DeleteTargets: the delete of every
\* listed object is attempted in the call
C9_EveryListedDeleteAttempted ==
    (DeletingPass /\ last.deletion # <<>>) =>
        \A t \in 1..Len(last.deletion[1].listed) :
            \E i \in OpIndexes :
                ops[i].verb = "delete" /\ OpKey(ops[i]) = last.deletion[1].listed[t]

\* the reason that goes with the stage of UpdateTargets that failed
ReasonOfFailure(sync) ==
    IF sync.sourceErr # NoError THEN ConditionReasonSourceNotFound
    ELSE IF sync.buildErr # NoError THEN ConditionReasonTargetNamespaceNotFound
    ELSE ConditionReasonSourceReplicationFailed

\* the pass that has just failed in a stage of UpdateTargets
C10_FailedPass ==
    /\ SyncPass
    /\ last.sync[1].err # NoError

\* the state of C10: the condition, the abort, the Replika and its finalizer
C10_AfterFailure ==
    C10_FailedPass =>
        /\ LastConditionIsFalse(ReasonOfFailure(last.sync[1]))
        /\ last.requeueAfter = NoRequeue
        /\ last.stageErr = last.sync[1].err
        /\ \A i \in OpIndexes :
               /\ ops[i].verb # "delete"
               /\ (ops[i].verb \in TargetWriteVerbs /\ ops[i].err # NoError) =>
                      \A j \in (i + 1)..Len(ops) : ops[j].verb \notin TargetWriteVerbs
        /\ last.sync[1].buildErr # NoError =>
               \A i \in OpIndexes : ops[i].verb \notin TargetWriteVerbs
        /\ replikas[last.req] # NoReplika
        /\ replikas[last.req].finalizer

\* the step of C10: the failed pass removes no object
C10_KeepsObjects ==
    C10_FailedPass' =>
        \A key \in ObjKeys : objects[key] # Absent => objects'[key] # Absent

\* C10: a stage of a pass that fails (source, namespaces, a write) sets the
\* SourceSynced condition False with the reason of the stage and ends the pass,
\* and removes neither the Replika, nor its finalizer, nor an object that exists
C10_StageFailure == [](C10_AfterFailure) /\ [][C10_KeepsObjects]_vars

\* C10 witness: a write failed after another target was written
C10_Witness ==
    /\ C10_FailedPass
    /\ last.sync[1].buildErr = NoError
    /\ Len(ops) >= 2
    /\ ops[Len(ops)].verb \in TargetWriteVerbs /\ ops[Len(ops)].err # NoError
    /\ ops[Len(ops) - 1].verb \in TargetWriteVerbs /\ ops[Len(ops) - 1].err = NoError

\* the SourceSynced condition of the in-memory Replika of the pass is True, SourceSynced
LastConditionIsSynced ==
    LET i == GetReplikaCondition(last.conditions, ConditionTypeSourceSynced, 1)
    IN  /\ i # 0
        /\ last.conditions[i].status = ConditionTrue
        /\ last.conditions[i].reason = ConditionReasonSourceSynced

\* C11: a pass whose namespace resolution, source fetch and target writes all
\* succeeded ends with the SourceSynced condition True, SourceSynced
C11_SyncedOnSuccess ==
    (SyncPass /\ last.sync[1].err = NoError) => LastConditionIsSynced

\* C12: every pass on a Replika that exists and is not being deleted ends with
\* a positive requeue delay or with an error returned to the framework
C12_AlwaysRescheduled ==
    (last.branch \in {"sync", "finalizerError"}) =>
        (last.requeueAfter > 0 \/ last.err # NoError)

\* C13: when spec.synchronization.time does not parse, the pass that has
\* synchronized its targets asks for a requeue after the default delay and
\* leaves its body without error
C13_DefaultDelayOnParseFailure ==
    (/\ SyncPass
     /\ last.sync[1].err = NoError
     /\ ParseDuration(last.manifest.spec.time).err # NoError) =>
        /\ last.requeueAfter = defaultSynchronizationTime
        /\ last.stageErr = NoError

\* a call of GetNamespaces that has returned
GetNamespacesReturned ==
    /\ call.fn = "GetNamespaces"
    /\ call.done

\* C14: under matchAll with a well-formed excludeFrom, GetNamespaces returns
\* the listed namespaces that are neither excluded nor the namespace of the
\* source, each once, and nothing else
C14_MatchAllExact ==
    (/\ GetNamespacesReturned
     /\ call.spec.matchAll
     /\ WellFormed(call.spec.excludeFrom)) =>
        /\ call.result.err = NoError
        /\ Range(call.result.namespaces) =
               Range(call.listed.items)
                   \ (Range(call.spec.excludeFrom) \cup {call.spec.source.namespace})
        /\ Len(call.result.namespaces) = Cardinality(Range(call.result.namespaces))

\* C14 witness: a call where the list holds the source namespace, an excluded
\* namespace and one that is returned
C14_Witness ==
    /\ GetNamespacesReturned
    /\ call.spec.matchAll
    /\ WellFormed(call.spec.excludeFrom)
    /\ call.spec.source.namespace \in Range(call.listed.items)
    /\ \E ns \in Range(call.spec.excludeFrom) \cap Range(call.listed.items) :
           ns # call.spec.source.namespace
    /\ call.result.namespaces # <<>>

\* a call of GetNamespaces with an explicit list that names the source namespace
ListNamesSource ==
    /\ GetNamespacesReturned
    /\ ~call.spec.matchAll
    /\ call.spec.source.namespace \in Range(call.spec.replicateIn)

\* C15: with matchAll unset and replicateIn empty, GetNamespaces returns
\* <<"default">> without error when the source is not in "default", and the
\* source-equals-target error with no namespace when it is
C15_EmptyListIsDefault ==
    (/\ GetNamespacesReturned
     /\ ~call.spec.matchAll
     /\ call.spec.replicateIn = <<>>) =>
        IF call.spec.source.namespace # NsDefault
            THEN call.result = [namespaces |-> <<NsDefault>>, err |-> NoError]
        ELSE call.result = [namespaces |-> <<>>,
                            err |-> sourceAndTargetSameNamespaceError]

\* C15 witness: the call with an empty list and the source in "default"
C15_Witness ==
    /\ GetNamespacesReturned
    /\ ~call.spec.matchAll
    /\ call.spec.replicateIn = <<>>
    /\ call.spec.source.namespace = NsDefault
    /\ call.result.err # NoError

\* C16 as stated: a replicateIn that names the source namespace, at any place
\* and among any entries, fails with the source-equals-target error
C16_AlwaysSameNamespaceError ==
    ListNamesSource => call.result.err = sourceAndTargetSameNamespaceError

\* C16 amended: a replicateIn that names the source namespace always fails,
\* with the source-equals-target error when every entry is well-formed and
\* with the format error when an entry is not
C16_ListWithSourceFails ==
    ListNamesSource =>
        call.result.err = IF WellFormed(call.spec.replicateIn)
                              THEN sourceAndTargetSameNamespaceError
                          ELSE namespaceFormatError

\* C16 witness: the source namespace is the first entry and another follows
C16_Witness ==
    /\ ListNamesSource
    /\ Len(call.spec.replicateIn) >= 2
    /\ call.spec.replicateIn[1] = call.spec.source.namespace
    /\ call.spec.replicateIn[2] # call.spec.source.namespace
    /\ call.result.err = sourceAndTargetSameNamespaceError

\* C17: under matchAll an excludeFrom entry that is not well-formed makes
\* GetNamespaces fail with the format error, whatever the listed namespaces
C17_MalformedExcludeFails ==
    (/\ GetNamespacesReturned
     /\ call.spec.matchAll
     /\ ~WellFormed(call.spec.excludeFrom)) =>
        call.result.err = namespaceFormatError

\* a call of BuildTargets that has returned, and the source it was given
BuildTargetsReturned ==
    /\ call.fn = "BuildTargets"
    /\ call.done

ControllerLabelKeys == {resourceReplikaLabelCreatedKey, resourceReplikaLabelPartOfKey}

\* C19: every manifest BuildTargets returns carries created-by =
\* replika-controller and part-of = the name of the Replika, whatever the
\* source carries under these keys, and every other label of the source as is
C19_ControllerLabels ==
    BuildTargetsReturned =>
        \A i \in 1..Len(call.result.targets) :
            LET labels == call.result.targets[i].labels
            IN  /\ labels[resourceReplikaLabelCreatedKey] = resourceReplikaLabelCreatedValue
                /\ labels[resourceReplikaLabelPartOfKey] = call.replika.name
                /\ \A l \in LabelKeys \ ControllerLabelKeys :
                       labels[l] = call.got.source.labels[l]

\* C19 witness: manifests built from a source that carries both keys of the
\* controller with other values, and a label of its own
C19_Witness ==
    /\ BuildTargetsReturned
    /\ Len(call.result.targets) >= 2
    /\ call.got.source.labels[resourceReplikaLabelCreatedKey] = "other"
    /\ call.got.source.labels[resourceReplikaLabelPartOfKey] = "v1"
    /\ call.got.source.labels[UserLabelKey] = "v1"

\* a manifest without the two labels of the controller and without namespace
StripManifest(target) ==
    [labels |-> [l \in LabelKeys |-> IF l \in ControllerLabelKeys THEN NoValue
                                     ELSE target.labels[l]],
     data |-> target.data]

\* C20 as stated: stripping a manifest gives back the labels and the payload
\* of the source, for every source
C20_RoundTripEverySource ==
    BuildTargetsReturned =>
        \A i \in 1..Len(call.result.targets) :
            /\ StripManifest(call.result.targets[i]).labels = call.got.source.labels
            /\ StripManifest(call.result.targets[i]).data = call.got.source.data

\* C20 amended: for a source that carries neither label key of the controller,
\* stripping a manifest gives back its labels and its payload (the status of
\* the source is not part of a manifest)
C20_RoundTrip ==
    (/\ BuildTargetsReturned
     /\ \A l \in ControllerLabelKeys : call.got.source.labels[l] = NoValue) =>
        \A i \in 1..Len(call.result.targets) :
            StripManifest(call.result.targets[i]) =
                [labels |-> call.got.source.labels, data |-> call.got.source.data]

\* C20 witness: manifests of a source with a label of its own and no label of
\* the controller
C20_Witness ==
    /\ BuildTargetsReturned
    /\ Len(call.result.targets) >= 1
    /\ \A l \in ControllerLabelKeys : call.got.source.labels[l] = NoValue
    /\ call.got.source.labels[UserLabelKey] = "v1"

\* C18: for a Replika whose source is of kind Namespace no target is created
\* or updated
C18_NoNamespaceReplicated ==
    (SyncPass /\ last.manifest.spec.source.kind = NamespaceKind) =>
        \A i \in OpIndexes :
            ~(ops[i].verb \in TargetWriteVerbs /\ ops[i].err = NoError)

\* the calls of UpdateTarget made so far on the manifest
UpdateTargetReturned ==
    /\ call.fn = "UpdateTarget"
    /\ call.results # <<>>

\* C21: UpdateTarget creates if and only if nothing is stored at the place of
\* the manifest, never deletes, and after a call without error the object
\* stored there has the payload, labels and annotations of the manifest
C21_CreateIffAbsentThenEqual ==
    UpdateTargetReturned =>
        LET first == call.results[1]
        IN  /\ (first.op.verb = "create") <=> (call.before[1] = Absent)
            /\ first.op.verb \in TargetWriteVerbs
            /\ first.err = NoError => first.stored = StoredObject(call.target)

\* C22: after a call of UpdateTarget without error, a second call with the
\* same manifest leaves the stored object as the first call left it
C22_SecondCallChangesNothing ==
    (/\ call.fn = "UpdateTarget"
     /\ Len(call.results) >= 2
     /\ call.results[1].err = NoError) =>
        call.results[2].stored = call.results[1].stored

\* C22 witness: two calls without error on a manifest that met an object with
\* other labels and another payload
C22_Witness ==
    /\ call.fn = "UpdateTarget"
    /\ Len(call.results) >= 2
    /\ call.before[1] # Absent
    /\ call.before[1].data # call.target.data
    /\ call.results[1].err = NoError
    /\ call.results[2].err = NoError
    /\ call.results[2].op.verb = "patch"

\* the condition types of a list
ConditionTypes(conditions) == {conditions[i].type : i \in 1..Len(conditions)}

\* C23: a call of UpdateReplikaCondition that repeats the status of the
\* stored condition of the type leaves its lastTransitionTime unchanged
C23_TransitionTimeOnlyOnStatusChange ==
    call.fn = "UpdateReplikaCondition" =>
        \A k \in 1..Len(call.results) :
            LET res == call.results[k]
                i == GetReplikaCondition(res.before, res.condition.type, 1)
            IN  (i # 0 /\ res.before[i].status = res.condition.status) =>
                    res.after[i].lastTransitionTime = res.before[i].lastTransitionTime

\* C24: after every call of UpdateReplikaCondition the list holds one
\* condition for each type it held before and for the type of the call, and
\* no two conditions of one type
C24_OneConditionPerType ==
    call.fn = "UpdateReplikaCondition" =>
        \A k \in 1..Len(call.results) :
            LET res == call.results[k]
            IN  /\ ConditionTypes(res.after) =
                       ConditionTypes(res.before) \cup {res.condition.type}
                /\ \A i, j \in 1..Len(res.after) :
                       res.after[i].type = res.after[j].type => i = j

\* C24 witness: a call that appended a condition of a new type, then a call
\* for the same type on a list of two conditions
C24_Witness ==
    /\ call.fn = "UpdateReplikaCondition"
    /\ Len(call.results) >= 2
    /\ Len(call.results[1].before) = 1
    /\ Len(call.results[1].after) = 2
    /\ call.results[2].condition.type = call.results[1].condition.type
    /\ call.results[2].condition.status # call.results[1].condition.status
    /\ Len(call.conditions) = 2

\* the (type, status, reason, message) of the conditions of a list
ConditionContents(conditions) ==
    {<<conditions[i].type, conditions[i].status, conditions[i].reason,
       conditions[i].message>> : i \in 1..Len(conditions)}

\* the pass has sent an update of the status subresource
StatusWriteIssued ==
    \E i \in OpIndexes : ops[i].verb = "updateStatus"

\* C25: a pass sends a status update only when the conditions in memory differ
\* by type, status, reason or message from the conditions stored in the
\* cluster; a pass whose conditions are those stored sends none
C25_StatusWriteOnlyOnChange ==
    (last.branch \notin {"none", "getError", "notFound"} /\ StatusWriteIssued) =>
        ConditionContents(last.conditions) #
            ConditionContents(last.manifest.conditions)

\* C25 witness: a pass over a Replika stored as synchronized ends with a
\* condition False and has written it with success
C25_Witness ==
    /\ SyncPass
    /\ last.manifest.conditions # <<>>
    /\ \E i \in OpIndexes : ops[i].verb = "updateStatus" /\ ops[i].err = NoError
    /\ replikas[last.req].conditions = last.conditions
    /\ ConditionContents(last.conditions) #
           ConditionContents(last.manifest.conditions)

\* C26: when the conditions computed in a pass differ from those stored and
\* the pass returns without error, the stored conditions are the computed ones
C26_ChangedConditionsPersisted ==
    (/\ SyncPass
     /\ last.err = NoError
     /\ ConditionContents(last.conditions) #
            ConditionContents(last.manifest.conditions)) =>
        ConditionContents(replikas[last.req].conditions) =
            ConditionContents(last.conditions)

\* the verbs of the writes of Reconcile on a Replika
ReplikaWriteVerbs == {"addFinalizer", "removeFinalizer", "updateStatus"}

\* a step of Reconcile leaves spec, name and deletion mark of r as they were
ReconcileKeepsSpec(r) ==
    (replikas[r] # NoReplika /\ replikas'[r] # NoReplika) =>
        /\ replikas'[r].spec = replikas[r].spec
        /\ replikas'[r].name = replikas[r].name
        /\ replikas'[r].deleting = replikas[r].deleting

\* every write of the pass on a Replika is one of the finalizer or the status
ReplikaWritesAreFinalizerOrStatus ==
    \A i \in 1..Len(ops') :
        ops'[i].kind = "Replika" => ops'[i].verb \in ReplikaWriteVerbs

\* C27: a pass of Reconcile writes a Replika only through its finalizer list
\* and its status conditions, and the spec stored after the pass is the spec
\* stored before it
C27_SpecNeverChanged ==
    [][edits' = edits =>
          /\ \A r \in ReplikaNames : ReconcileKeepsSpec(r)
          /\ ReplikaWritesAreFinalizerOrStatus]_vars

\* C27 witness: a pass has added the finalizer and written the status of a
\* Replika whose synchronization time does not parse
C27_Witness ==
    /\ SyncPass
    /\ \E i \in OpIndexes : ops[i].verb = "addFinalizer" /\ ops[i].err = NoError
    /\ \E i \in OpIndexes : ops[i].verb = "updateStatus" /\ ops[i].err = NoError
    /\ replikas[last.req] # NoReplika
    /\ replikas[last.req].finalizer
    /\ ParseDuration(replikas[last.req].spec.time).err # NoError

\* the pass found no Replika of the requested name
NotFoundPass == last.branch = "notFound"

\* C28: a pass on a request whose Replika does not exist returns no error and
\* no requeue delay, and writes nothing to the cluster
C28_NotFoundEndsQuietly ==
    [][(/\ edits' = edits
        /\ last'.branch # "none"
        /\ replikas[last'.req] = NoReplika) =>
          /\ ops' = <<>>
          /\ objects' = objects
          /\ replikas' = replikas
          /\ last'.branch # "getError" =>
                 /\ last'.branch = "notFound"
                 /\ last'.err = NoError
                 /\ last'.requeueAfter = NoRequeue]_vars

\* C28 witness: a pass on a request that names no Replika, in a cluster that
\* has changed since the start and holds objects
C28_Witness ==
    /\ NotFoundPass
    /\ edits > 0
    /\ replikas[last.req] = NoReplika
    /\ \E key \in ObjKeys : objects[key] # Absent

\* C29: under matchAll GetNamespaces answers from the listed namespaces,
\* whether replicateIn is empty or not: it returns listed namespaces other
\* than the namespace of the source, and on success all of them that are not
\* excluded
C29_MatchAllBeforeReplicateIn ==
    (GetNamespacesReturned /\ call.spec.matchAll) =>
        /\ Range(call.result.namespaces) \subseteq
               Range(call.listed.items) \ {call.spec.source.namespace}
        /\ call.result.err = NoError =>
               Range(call.result.namespaces) =
                   Range(call.listed.items)
                       \ (Range(call.spec.excludeFrom) \cup {call.spec.source.namespace})
        /\ call.result.err \in {NoError, namespaceFormatError}

\* C29 witness: matchAll with a replicateIn of one namespace returns a listed
\* namespace that replicateIn does not name
C29_Witness ==
    /\ GetNamespacesReturned
    /\ call.spec.matchAll
    /\ call.spec.replicateIn = <<NsB>>
    /\ call.result.err = NoError
    /\ \E i \in 1..Len(call.result.namespaces) :
           call.result.namespaces[i] \notin Range(call.spec.replicateIn)

\* C30: the list GetNamespaces returns without error holds every namespace
\* at most once
C30_NoNamespaceTwice ==
    (GetNamespacesReturned /\ call.result.err = NoError) =>
        Len(call.result.namespaces) = Cardinality(Range(call.result.namespaces))

\* the objects that carry the label part-of of the Replika of the name
LabelledPartOf(name) ==
    {key \in DOMAIN objects :
        /\ objects[key] # Absent
        /\ objects[key].labels[resourceReplikaLabelPartOfKey] = name}

\* C31: after a pass that has synchronized every target without error, the
\* objects labelled part-of the Replika, the place of the source aside, are in
\* the namespaces the pass resolved
C31_NoTargetOutsideResolved ==
    (/\ SyncPass
     /\ last.sync[1].err = NoError
     /\ last.err = NoError) =>
        \A key \in LabelledPartOf(last.req) \ {SourceKeyOf(last.manifest.spec)} :
            key[2] \in Range(last.sync[1].resolved[1].namespaces)

\* C32: no step rewrites the part-of label of an object from the name of one
\* Replika to the name of another
C32_OwnerNeverRewritten ==
    [][\A key \in DOMAIN objects :
          (/\ objects[key] # Absent
           /\ objects'[key] # Absent
           /\ objects[key].labels[resourceReplikaLabelPartOfKey] # NoValue) =>
              objects'[key].labels[resourceReplikaLabelPartOfKey] =
                  objects[key].labels[resourceReplikaLabelPartOfKey]]_vars

\* the pass has removed the finalizer of the Replika
FinalizerRemoved ==
    /\ DeletingPass
    /\ \E i \in OpIndexes : ops[i].verb = "removeFinalizer" /\ ops[i].err = NoError

\* C33: when a pass has removed the finalizer of a Replika, no object of any
\* kind in any namespace carries the label part-of of that Replika
C33_NothingLabelledAfterCleanup ==
    FinalizerRemoved => LabelledPartOf(last.req) = {}

\* C34: a pass on a Replika being deleted in which DeleteTargets succeeded and
\* the update that removes the finalizer failed returns an error or a requeue
\* delay, so that the removal is tried again
C34_FailedRemovalIsRetried ==
    (/\ DeletingPass
     /\ last.deletion # <<>>
     /\ last.deletion[1].err = NoError
     /\ \E i \in OpIndexes : ops[i].verb = "removeFinalizer" /\ ops[i].err # NoError) =>
        (last.err # NoError \/ last.requeueAfter > 0)

\* the reasons of a condition False
FailureReasons ==
    {ConditionReasonSourceNotFound, ConditionReasonTargetNamespaceNotFound,
     ConditionReasonSourceReplicationFailed}

\* a condition as the controller writes them
WellShapedCondition(c) ==
    /\ c.type = ConditionTypeSourceSynced
    /\ c.status \in {ConditionTrue, ConditionFalse}
    /\ c.status = ConditionTrue <=> c.reason = ConditionReasonSourceSynced
    /\ c.status = ConditionFalse => c.reason \in FailureReasons

\* C36: every condition of a Replika, stored in the cluster or set in memory
\* by the last pass, has type SourceSynced, status True or False, status True
\* exactly with the reason SourceSynced and status False with a failure reason
C36_ConditionsWellShaped ==
    /\ \A r \in DOMAIN replikas :
           replikas[r] # NoReplika =>
               \A i \in 1..Len(replikas[r].conditions) :
                   WellShapedCondition(replikas[r].conditions[i])
    /\ last.branch \notin {"none"} =>
           \A i \in 1..Len(last.conditions) : WellShapedCondition(last.conditions[i])

\* C36 witness: a pass has stored a condition False in place of the condition
\* True of an earlier pass
C36_Witness ==
    /\ SyncPass
    /\ last.manifest.conditions # <<>>
    /\ last.manifest.conditions[1].status = ConditionTrue
    /\ replikas[last.req] # NoReplika
    /\ replikas[last.req].conditions # <<>>
    /\ replikas[last.req].conditions[1].status = ConditionFalse
    /\ replikas[last.req].conditions[1].reason = ConditionReasonSourceReplicationFailed

\* UpdateTarget was called on a manifest whose place held an object without
\* the labels of the controller, and returned without error
OverwroteForeignObject ==
    /\ UpdateTargetReturned
    /\ call.before[1] # Absent
    /\ call.before[1].labels[resourceReplikaLabelCreatedKey] = NoValue
    /\ call.before[1].labels[resourceReplikaLabelPartOfKey] = NoValue
    /\ call.results[1].err = NoError

\* C37: an object that exists at the place of a manifest and does not carry
\* the labels of the controller is patched with the payload of the source
\* (every key the manifest carries takes the value of the source), gains both
\* labels, and is listed and deleted by a DeleteTargets of the Replika that
\* follows
C37_ForeignObjectTakenOver ==
    OverwroteForeignObject =>
        /\ call.results[1].op.verb = "patch"
        /\ \A d \in DataKeys :
               call.target.data[d] # NoValue =>
                   call.results[1].stored.data[d] = call.target.data[d]
        /\ call.results[1].stored.labels[resourceReplikaLabelCreatedKey] =
               resourceReplikaLabelCreatedValue
        /\ call.results[1].stored.labels[resourceReplikaLabelPartOfKey] =
               call.replika.name
        /\ (call.deleted # <<>> /\ call.deleted[1].err = NoError) =>
               /\ \E i \in 1..Len(call.deleted[1].listed) :
                      call.deleted[1].listed[i] = TargetKey(call.target)
               /\ call.deleted[1].stored = Absent

\* C37 witness: an object of a user with another payload was patched, and
\* DeleteTargets has deleted it
C37_Witness ==
    /\ OverwroteForeignObject
    /\ call.before[1].data # call.target.data
    /\ call.deleted # <<>>
    /\ call.deleted[1].err = NoError
    /\ call.deleted[1].stored = Absent

\* C35: a pass whose Get of the Replika failed with an error other than
\* not-found returns the error and has written nothing
C35_GetFailureReturned ==
    last.branch = "getError" =>
        /\ last.err # NoError
        /\ ops = <<>>

\* the Reconcile event of the last step saw that Replika r is gone
ObservedDeleted(r) ==
    /\ last.branch = "gone"
    /\ last.req = r
    /\ replikas[r] = NoReplika

\* every goroutine started for Replika r has returned
LoopsReturned(r) ==
    \A g \in 1..Len(goroutines) : goroutines[g].for = r => goroutines[g].pc = "done"

LoopsTerminate ==
    \A r \in LoopNames : ObservedDeleted(r) ~> LoopsReturned(r)

\* the objects a step removes carry the part-of label of the request of
\* the event that observed the deletion
DeletesTargetsOfDeleted ==
    [][(call # NoCall /\ last'.branch = "gone" /\ replikas[call.req] = NoReplika) =>
          \A key \in DOMAIN objects :
              (objects[key] # Absent /\ objects'[key] = Absent) =>
                  objects[key].labels[resourceReplikaLabelPartOfKey] = call.req]_vars

\* C38: in the polling-loop variant, once a Reconcile event has observed a
\* Replika as deleted every goroutine started for it eventually returns,
\* whatever events of other Replikas interleave, and the DeleteTargets of
\* that event removes targets of the deleted Replika only
C38_LoopsStopAndOwnTargetsRemoved ==
    /\ DeletesTargetsOfDeleted
    /\ LoopsTerminate

====
